---- MODULE Spec2Model ----
(***************************************************************************)
(* Verification model of fractalater: the adaptive quality controller and  *)
(* the render scheduling of FractalCanvas.tsx, the animation driver of     *)
(* FractalEditor.tsx, and the pure helpers they call.                      *)
(*                                                                         *)
(* One action is one JavaScript task: an event handler, a timer or frame   *)
(* callback, together with the React commit and the effects it triggers.   *)
(***************************************************************************)
EXTENDS Integers, Sequences, FiniteSets, TLC

(***************************************************************************)
(* Bounds of the model                                                     *)
(***************************************************************************)
\* Number of untracked frame callbacks counted exactly; the count saturates
\* here, so the value MaxUntracked stands for "MaxUntracked or more".
MaxUntracked == 1
\* Number of pending refinement timers counted exactly (saturating likewise).
MaxTimers == 2
\* Largest decimal exponent of the zoom values tried (the slider ends at 10^8).
MaxZoomExp == 8

\* Largest iteration cap a pixel is shaded with.
MaxCap == 100

\* Number of updates of the numeric parameter record followed.
MaxSteps == 4

\* Number of fractals ever saved.
MaxFractals == 2

\* Number of pointer moves and animation ticks followed during one drag.
MaxMoves == 3

(***************************************************************************)
(* Program constants (FractalCanvas.tsx:22-25); scales in tenths           *)
(***************************************************************************)
INTERACTION_SCALE == 5
PERFORMANCE_SCALE == 5
FULL_SCALE == 10

Min(a, b) == IF a < b THEN a ELSE b
Max(a, b) == IF a > b THEN a ELSE b

(***************************************************************************)
(* The parameter record (types/fractal.ts).  colorCycleSpeed is in         *)
(* hundredths.  Only the fields the controller and the driver read are     *)
(* kept here.                                                              *)
(***************************************************************************)
DEFAULT_FRACTAL_PARAMS ==
  [ type            |-> "mandelbrot",
    colorCycleSpeed |-> 0,
    animateJulia    |-> FALSE,
    autoZoom        |-> FALSE,
    autoRotate      |-> FALSE,
    autoHueShift    |-> FALSE,
    autoPower       |-> FALSE,
    performanceMode |-> FALSE ]

\* The families the type selector of the bounded model offers.
TypeChoices == {"mandelbrot", "julia"}

\* The toggle buttons the bounded model presses: animateJulia also keeps the
\* canvas render loop going, autoZoom stands for the four auto-animate
\* toggles, which the controller and the driver treat alike.
ToggleFields == {"animateJulia", "autoZoom", "performanceMode"}

\* Values the colour-cycle slider is moved to (hundredths).
CycleChoices == {0, 5}

\* FractalCanvas.tsx isAnimating
isAnimating(p) ==
  \/ p.colorCycleSpeed > 0
  \/ p.animateJulia
  \/ p.autoZoom
  \/ p.autoRotate
  \/ p.autoHueShift
  \/ p.autoPower

\* FractalEditor.tsx hasAnimation (auto-animation effect)
hasAnimation(p) ==
  \/ p.autoZoom
  \/ p.autoRotate
  \/ p.autoHueShift
  \/ p.autoPower
  \/ p.colorCycleSpeed > 0
  \/ p.animateJulia

(***************************************************************************)
(* FractalCanvas.tsx: the iteration cap handed to the shader               *)
(*                                                                         *)
(* A zoom value is mant * 10^exp with mant in {1, 2, 5}.  Logarithms are   *)
(* in units of 1/10000; for the values tried the result of the floor below *)
(* equals the one of the double arithmetic.                                *)
(***************************************************************************)
Zoom(m, e) == [mant |-> m, exp |-> e]

\* Math.max(zoom, 1)
MaxOne(zoom) == IF zoom.exp < 0 THEN Zoom(1, 0) ELSE zoom

\* Math.log10 of a zoom >= 1
Log10E4(zoom) ==
  zoom.exp * 10000 + CASE zoom.mant = 1 -> 0
                       [] zoom.mant = 2 -> 3010
                       [] zoom.mant = 5 -> 6989

\* getAdaptiveIterations with the factor 0.5 of line 89 left out.
getAdaptiveIterations_NoHalf(baseIterations, zoom, performanceMode, isMobile) ==
  LET zoomFactor == Log10E4(MaxOne(zoom))
      adaptiveIterations == (baseIterations * (10000 + zoomFactor)) \div 10000
      deviceCap == IF isMobile THEN 500 ELSE 2000
      maxCap == IF performanceMode THEN Min(deviceCap, 200) ELSE deviceCap
  IN Min(adaptiveIterations, maxCap)

\* getAdaptiveIterations that does not lower the cap in performance mode.
getAdaptiveIterations_IgnoresPerformance(baseIterations, zoom, performanceMode, isMobile) ==
  LET zoomFactor == Log10E4(MaxOne(zoom))
      adaptiveIterations == (baseIterations * (20000 + zoomFactor)) \div 20000
      deviceCap == IF isMobile THEN 500 ELSE 2000
  IN Min(adaptiveIterations, deviceCap)

\* getAdaptiveIterations (lines 85-97); isMobile is isMobileRef.current.
\* Math.floor(baseIterations * (1 + zoomFactor * 0.5))
getAdaptiveIterations(baseIterations, zoom, performanceMode, isMobile) ==
  LET zoomFactor == Log10E4(MaxOne(zoom))
      adaptiveIterations == (baseIterations * (20000 + zoomFactor)) \div 20000
      deviceCap == IF isMobile THEN 500 ELSE 2000
      maxCap == IF performanceMode THEN Min(deviceCap, 200) ELSE deviceCap
  IN Min(adaptiveIterations, maxCap)

\* render (lines 177-186): usePerformance and the u_maxIterations uniform
usePerformance(p) == p.performanceMode /\ isAnimating(p)

effectiveIterations(p, maxIterations, zoom, isMobile) ==
  getAdaptiveIterations(maxIterations, zoom, usePerformance(p), isMobile)

(***************************************************************************)
(* FractalCanvas.tsx: enum selectors to shader integers                    *)
(*                                                                         *)
(* JavaScript values: a number, a function, an object or undefined.  The   *)
(* lookup tables are object literals, so a key they do not own is looked   *)
(* up in Object.prototype.                                                 *)
(***************************************************************************)
Number(k) == [kind |-> "number", n |-> k]
FunctionValue == [kind |-> "function", n |-> 0]
ObjectValue == [kind |-> "object", n |-> 0]
Undefined == [kind |-> "undefined", n |-> 0]

\* Methods every object inherits from Object.prototype (some of them).
ObjectPrototypeMethods == {"constructor", "toString", "valueOf", "hasOwnProperty"}

\* table[key] for an object literal `table`
GetProperty(table, key) ==
  IF key \in DOMAIN table THEN Number(table[key])
  ELSE IF key \in ObjectPrototypeMethods THEN FunctionValue
  ELSE IF key = "__proto__" THEN ObjectValue
  ELSE Undefined

\* value ?? fallback
Coalesce(value, fallback) ==
  IF value.kind = "undefined" THEN Number(fallback) ELSE value

\* The object literals of lines 64-66, 71-73 and 78-80.
types == [mandelbrot |-> 0, julia |-> 1, burningship |-> 2, tricorn |-> 3,
          phoenix |-> 4, newton |-> 5]
schemes == [classic |-> 0, smooth |-> 1, fire |-> 2, ocean |-> 3, rainbow |-> 4,
            monochrome |-> 5, psychedelic |-> 6, neon |-> 7, pastel |-> 8]
methods == [escape |-> 0, smooth |-> 1, orbit |-> 2, angle |-> 3, stripe |-> 4,
            domain |-> 5]

\* fractalTypeToInt, colorSchemeToInt, coloringMethodToInt (lines 63-82)
fractalTypeToInt(type) == Coalesce(GetProperty(types, type), 0)
colorSchemeToInt(scheme) == Coalesce(GetProperty(schemes, scheme), 0)
coloringMethodToInt(method) == Coalesce(GetProperty(methods, method), 1)

\* gl.uniform1i(location, value): the argument is converted to a 32-bit
\* integer; a value that is not a number converts to NaN and so to 0.
uniform1i(value) == IF value.kind = "number" THEN value.n ELSE 0

(***************************************************************************)
(* fragment.glsl: colouring and post-processing of one pixel               *)
(*                                                                         *)
(* Floats are fixed-point numbers in thousandths; a vec3 is a triple.  The *)
(* uniforms the GLSL functions read as globals are passed as the record u. *)
(***************************************************************************)
FRACTAL_NEWTON == 5

Abs(x) == IF x < 0 THEN 0 - x ELSE x
fract(x) == x % 1000
clamp01(x) == Max(0, Min(x, 1000))

\* cos(6.28318 * x), x in thousandths of a turn, evaluated on a grid of
\* twentieths of a turn.
CosTable == <<1000, 951, 809, 588, 309, 0, -309, -588, -809, -951,
              -1000, -951, -809, -588, -309, 0, 309, 588, 809, 951>>
cos(x) == CosTable[((((x % 1000) + 25) \div 50) % 20) + 1]

\* pow(x, 0.5) for x in 0..1
sqrt(x) == CHOOSE r \in 0..1000 : r * r <= x * 1000 /\ (r + 1) * (r + 1) > x * 1000

hsv2rgb(c) ==
  LET K == <<1000, 667, 333>>
      p(i) == Abs(fract(c[1] + K[i]) * 6 - 3000)
      channel(i) == (c[3] * (1000 + ((clamp01(p(i) - 1000) - 1000) * c[2]) \div 1000)) \div 1000
  IN <<channel(1), channel(2), channel(3)>>

\* The constant e (1.0e-10) that keeps the divisors positive is below the
\* fixed-point resolution: a divisor is at least one unit.
rgb2hsv(c) ==
  LET r == c[1]
      g == c[2]
      b == c[3]
      p == IF g >= b THEN <<g, b, 0, -333>> ELSE <<b, g, -1000, 667>>
      q == IF r >= p[1] THEN <<r, p[2], p[3], p[1]>> ELSE <<p[1], p[2], p[4], r>>
      d == q[1] - Min(q[4], q[2])
  IN <<Abs(q[3] + ((q[4] - q[2]) * 1000) \div Max(6 * d, 1)),
       (d * 1000) \div Max(q[1], 1),
       q[1]>>

palette(t, a, b, c, d) ==
  LET channel(i) == a[i] + (b[i] * cos((c[i] * t) \div 1000 + d[i])) \div 1000
  IN <<channel(1), channel(2), channel(3)>>

getColorScheme(t0, scheme) ==
  LET t == fract(t0)
      half == <<500, 500, 500>>
      one == <<1000, 1000, 1000>>
  IN CASE scheme = 0 -> palette(t, half, half, one, <<0, 100, 200>>)
       [] scheme = 1 -> palette(t, half, half, one, <<0, 330, 670>>)
       [] scheme = 2 -> palette(t, <<500, 200, 0>>, <<500, 400, 200>>,
                                <<1000, 800, 400>>, <<0, 100, 200>>)
       [] scheme = 3 -> palette(t, <<0, 200, 400>>, <<0, 400, 500>>,
                                <<0, 600, 800>>, <<0, 100, 300>>)
       [] scheme = 4 -> hsv2rgb(<<t, 850, 950>>)
       [] scheme = 5 -> <<t, t, t>>
       [] scheme = 6 -> palette(t, half, half, <<2000, 1000, 0>>, <<500, 200, 250>>)
       [] scheme = 7 ->
            LET col == palette(t, half, half, one, <<0, 100, 200>>)
            IN <<(sqrt(col[1]) * 3) \div 2, (sqrt(col[2]) * 3) \div 2,
                 (sqrt(col[3]) * 3) \div 2>>
       [] OTHER -> palette(t, <<800, 800, 800>>, <<200, 200, 200>>, one,
                           <<0, 330, 670>>)

applyHueShift(u, color) ==
  IF u.u_hueShift > 1
    THEN LET hsv == rgb2hsv(color)
         IN hsv2rgb(<<fract(hsv[1] + u.u_hueShift), hsv[2], hsv[3]>>)
    ELSE color

applySaturation(u, color) ==
  LET gray == (299 * color[1] + 587 * color[2] + 114 * color[3]) \div 1000
      channel(i) == gray + ((color[i] - gray) * u.u_saturation) \div 1000
  IN <<channel(1), channel(2), channel(3)>>

applyGlow(u, color, iter, maxIter, colorVal) ==
  IF u.u_glowIntensity > 0 /\ u.u_fractalType # FRACTAL_NEWTON
    THEN LET glow1 == 1000 - (iter * 1000) \div maxIter
             glow == (((glow1 * glow1 * glow1) \div 1000000) * u.u_glowIntensity) \div 1000
             scheme == getColorScheme(colorVal + 500, u.u_colorScheme)
             channel(i) == color[i] + (glow * scheme[i]) \div 1000
         IN <<channel(1), channel(2), channel(3)>>
    ELSE color

applyPosterize(u, color) ==
  IF u.u_posterize > 1500
    THEN LET channel(i) == (((color[i] * u.u_posterize) \div 1000000) * 1000000)
                              \div u.u_posterize
         IN <<channel(1), channel(2), channel(3)>>
    ELSE color

postProcess(u, color0, iter, maxIter, colorVal) ==
  LET color1 == applyHueShift(u, color0)
      color2 == applySaturation(u, color1)
      color3 == <<(color2[1] * u.u_brightness) \div 1000,
                  (color2[2] * u.u_brightness) \div 1000,
                  (color2[3] * u.u_brightness) \div 1000>>
      color4 == applyGlow(u, color3, iter, maxIter, colorVal)
      color5 == applyPosterize(u, color4)
  IN <<clamp01(color5[1]), clamp01(color5[2]), clamp01(color5[3])>>

\* main, from "Determine final color" on: iter and colorVal are what the
\* iteration loop and calculateColorValue left.
main_PaletteForInterior(u, iter, maxIter, colorVal) ==
  postProcess(u, getColorScheme(colorVal, u.u_colorScheme), iter, maxIter, colorVal)

main(u, iter, maxIter, colorVal) ==
  LET color == IF iter >= maxIter /\ u.u_fractalType # FRACTAL_NEWTON
                 THEN <<0, 0, 0>>
                 ELSE getColorScheme(colorVal, u.u_colorScheme)
  IN postProcess(u, color, iter, maxIter, colorVal)

(***************************************************************************)
(* The numeric fields of the parameter record                              *)
(*                                                                         *)
(* zoom is a double kept by its sign class and, when positive and finite,  *)
(* its natural logarithm in tenths: products add logarithms, and a product *)
(* outside the range of the doubles becomes 0 or Infinity as in IEEE 754.  *)
(* The other fields are fixed-point: hueShift and power in thousandths,    *)
(* the auto speeds in hundredths, globalAnimSpeed in tenths, times in      *)
(* hundredths of a second.                                                 *)
(***************************************************************************)
\* ln of the smallest positive double (4.9e-324) and of the largest
\* (1.8e308), in tenths.
LN_MIN == -7444
LN_MAX == 7097
\* ln 2, in tenths.
LN_2 == 7

Pos(ln) == [kind |-> "pos", ln |-> ln]
Zero == [kind |-> "zero", ln |-> 0]
Infinity == [kind |-> "inf", ln |-> 0]
NaN == [kind |-> "nan", ln |-> 0]

\* Math.exp(x), x in tenths: 0 below the smallest double, Infinity above
\* the largest.
exp(x) ==
  IF x > LN_MAX THEN Infinity
  ELSE IF x < LN_MIN - LN_2 THEN Zero
  ELSE Pos(Max(x, LN_MIN))

\* a * b for doubles a, b >= 0: an underflowing product is rounded to the
\* nearest of 0 and the smallest double.
times(a, b) ==
  CASE a.kind = "nan" \/ b.kind = "nan" -> NaN
    [] a.kind = "zero" /\ b.kind = "inf" -> NaN
    [] a.kind = "inf" /\ b.kind = "zero" -> NaN
    [] a.kind = "zero" \/ b.kind = "zero" -> Zero
    [] a.kind = "inf" \/ b.kind = "inf" -> Infinity
    [] OTHER -> exp(a.ln + b.ln)

\* zoom > 0
IsPositive(z) == z.kind \in {"pos", "inf"}

\* ln of a touch distance in pixels, in tenths.
LnDistance(d) == CASE d = 50 -> 39 [] d = 100 -> 46 [] d = 200 -> 53

\* a % b of JavaScript: the sign of the dividend.
Remainder(a, b) == IF a >= 0 THEN a % b ELSE 0 - ((0 - a) % b)

\* Math.sin(2 pi x), x in thousandths of a turn.
sin(x) == cos(x + 750)

\* The numeric part of DEFAULT_FRACTAL_PARAMS.
DEFAULT_NUMERIC_PARAMS ==
  [zoom |-> Pos(0), hueShift |-> 0, power |-> 2000, globalAnimSpeed |-> 10,
   autoZoom |-> FALSE, autoZoomSpeed |-> 2,
   autoHueShift |-> FALSE, autoHueSpeed |-> 2,
   autoPower |-> FALSE]

\* handleParamsChange: setParams((prev) => ({ ...prev, ...newParams }))
handleParamsChange(prev, newParams) ==
  [f \in DOMAIN prev |-> IF f \in DOMAIN newParams THEN newParams[f] ELSE prev[f]]

\* The updater animate passes to setParams: speed and deltaTime are the
\* values of the animate call, phase is Date.now() / 1000 * autoPowerSpeed *
\* speed in thousandths of a turn.
animateUpdates(prev, speed, deltaTime, phase) ==
  LET zoomUpdate ==
        IF prev.autoZoom
          THEN [zoom |-> times(prev.zoom,
                               exp((prev.autoZoomSpeed * speed * deltaTime) \div 10000))]
          ELSE <<>>
      hueUpdate ==
        IF prev.autoHueShift
          THEN [hueShift |->
                  Remainder(prev.hueShift
                              + (prev.autoHueSpeed * speed * deltaTime) \div 100,
                            1000)]
          ELSE <<>>
      powerUpdate ==
        IF prev.autoPower THEN [power |-> 2000 + sin(phase) * 2] ELSE <<>>
  IN handleParamsChange(handleParamsChange(handleParamsChange(prev, zoomUpdate),
                                           hueUpdate), powerUpdate)

\* parseFloat of the text of a number input, in thousandths; the empty
\* text gives NaN.
parseFloat(text) ==
  CASE text = "" -> [nan |-> TRUE, n |-> 0]
    [] text = "0" -> [nan |-> FALSE, n |-> 0]
    [] text = "-2" -> [nan |-> FALSE, n |-> -2000]
    [] text = "-0.5" -> [nan |-> FALSE, n |-> -500]
    [] text = "0.05" -> [nan |-> FALSE, n |-> 50]
    [] text = "1" -> [nan |-> FALSE, n |-> 1000]
    [] text = "2" -> [nan |-> FALSE, n |-> 2000]
    [] text = "20" -> [nan |-> FALSE, n |-> 20000]

\* value || fallback for a number (thousandths); the result in units of
\* 1 / perOne.
OrElse(value, fallback, perOne) ==
  (IF value.nan \/ value.n = 0 THEN fallback ELSE value.n) \div (1000 \div perOne)

(***************************************************************************)
(* FractalCanvas.tsx: screen and plane coordinates                         *)
(*                                                                         *)
(* Coordinates and zoom are exact rationals <<numerator, denominator>> in  *)
(* lowest terms with a positive denominator; pixels are integers.          *)
(***************************************************************************)
RECURSIVE Gcd(_, _)
Gcd(a, b) == IF b = 0 THEN a ELSE Gcd(b, a % b)

Q(n, d) ==
  LET g == Gcd(Abs(n), Abs(d))
      s == IF d < 0 THEN -1 ELSE 1
  IN <<(s * n) \div g, (s * d) \div g>>

Plus(a, b) ==
  LET g == Gcd(a[2], b[2])
  IN Q(a[1] * (b[2] \div g) + b[1] * (a[2] \div g), (a[2] \div g) * b[2])
Minus(a, b) == Plus(a, <<0 - b[1], b[2]>>)
By(a, b) == Q(a[1] * b[1], a[2] * b[2])
Over(a, b) == Q(a[1] * b[2], a[2] * b[1])

\* (canvasX - rect.width / 2) / minDim * 2 and its flipped counterpart
Normalized(rect, screenX, screenY) ==
  LET minDim == Min(rect.width, rect.height)
      canvasX == screenX - rect.left
      canvasY == screenY - rect.top
  IN [nx |-> Q((2 * canvasX - rect.width) * 2, 2 * minDim),
      ny |-> Q(0 - (2 * canvasY - rect.height) * 2, 2 * minDim)]

screenToFractal(canvas, rect, p, screenX, screenY) ==
  IF ~canvas THEN [x |-> Q(0, 1), y |-> Q(0, 1)]
  ELSE LET n == Normalized(rect, screenX, screenY)
       IN [x |-> Plus(Over(n.nx, p.zoom), p.centerX),
           y |-> Plus(Over(n.ny, p.zoom), p.centerY)]

\* handleWheel: the partial update it passes to onParamsChange
handleWheel_ZoomOnly(canvas, rect, p, clientX, clientY, deltaY) ==
  [zoom |-> By(p.zoom, IF deltaY > 0 THEN Q(9, 10) ELSE Q(11, 10))]

handleWheel(canvas, rect, p, clientX, clientY, deltaY) ==
  LET fractalPosBefore == screenToFractal(canvas, rect, p, clientX, clientY)
      zoomFactor == IF deltaY > 0 THEN Q(9, 10) ELSE Q(11, 10)
      newZoom == By(p.zoom, zoomFactor)
      n == Normalized(rect, clientX, clientY)
  IN IF canvas
       THEN [zoom |-> newZoom,
             centerX |-> Minus(fractalPosBefore.x, Over(n.nx, newZoom)),
             centerY |-> Minus(fractalPosBefore.y, Over(n.ny, newZoom))]
       ELSE [zoom |-> newZoom]

\* getTouchDistance for two touches (the inputs tried have a whole distance)
getTouchDistance(touches) ==
  LET dx == touches[1].clientX - touches[2].clientX
      dy == touches[1].clientY - touches[2].clientY
  IN CHOOSE r \in 0..1000 : r * r = dx * dx + dy * dy

\* getTouchCenter for two touches
getTouchCenter(touches) ==
  [x |-> Q(touches[1].clientX + touches[2].clientX, 2),
   y |-> Q(touches[1].clientY + touches[2].clientY, 2)]

\* handleTouchMove with two touches: the parameter record after its
\* onParamsChange calls (both computed from the params of the last render).
handleTouchMove(rect, p, touches, lastTouchDistanceRef, lastTouchCenterRef) ==
  LET currentCenter == getTouchCenter(touches)
      currentDistance == getTouchDistance(touches)
      zoomUpdate ==
        IF currentDistance # 0 /\ lastTouchDistanceRef # 0
          THEN [zoom |-> By(p.zoom, Q(currentDistance, lastTouchDistanceRef))]
          ELSE <<>>
      dx == Minus(currentCenter.x, lastTouchCenterRef.x)
      dy == Minus(currentCenter.y, lastTouchCenterRef.y)
      scale == Over(Q(2, 1), By(Q(Min(rect.width, rect.height), 1), p.zoom))
      panUpdate == [centerX |-> Minus(p.centerX, By(dx, scale)),
                    centerY |-> Plus(p.centerY, By(dy, scale))]
  IN handleParamsChange(handleParamsChange(p, zoomUpdate), panUpdate)

(***************************************************************************)
(* Saved fractals: the API routes, the fractal page and handleSave         *)
(***************************************************************************)
\* The fields of a parameter record that a save and a load are followed
\* for: three fixed columns and four fields without a column.
DEFAULT_SAVED_PARAMS ==
  [type |-> "mandelbrot", zoom |-> 1, colorScheme |-> "classic",
   power |-> 2, coloringMethod |-> "smooth", glowIntensity |-> 0,
   autoZoom |-> FALSE]

\* No row under an id.
NoFractal == [exists |-> FALSE]

\* prisma.fractal.create of POST: the columns written from the request body
createData(data, userId) ==
  [exists |-> TRUE, userId |-> userId, isPublic |-> data.isPublic,
   type |-> data.type, zoom |-> data.zoom, colorScheme |-> data.colorScheme,
   extraParams |-> <<>>, sent |-> data]

\* prisma.fractal.update of PUT: userId and extraParams are not written
updateData(fractal, data, userId) ==
  [fractal EXCEPT !.isPublic = data.isPublic, !.type = data.type,
                  !.zoom = data.zoom, !.colorScheme = data.colorScheme,
                  !.sent = data]

\* The access check of GET /api/fractals/[id] and of FractalPage
mayRead_Anyone(fractal, session) == TRUE

mayRead(fractal, session) == fractal.isPublic \/ fractal.userId = session

\* FractalPage: initialParams from the row; extraParams is the parsed
\* extraParams column, a record of the fields it holds.
initialParams(fractal) ==
  LET columns == [type |-> fractal.type, zoom |-> fractal.zoom,
                  colorScheme |-> fractal.colorScheme]
  IN handleParamsChange(handleParamsChange(DEFAULT_SAVED_PARAMS, columns),
                        fractal.extraParams)

(***************************************************************************)
(* fragment.glsl: the iteration loop of one pixel                          *)
(*                                                                         *)
(* A vec2 is a pair of fixed-point numbers in thousandths; a product or a  *)
(* quotient is rounded to the nearest thousandth.  Of the orbit statistics *)
(* minDist is followed; stripe and totalAngle, which need atan and sin,    *)
(* are not.                                                                *)
(***************************************************************************)
FRACTAL_JULIA == 1
FRACTAL_BURNING_SHIP == 2
FRACTAL_TRICORN == 3
FRACTAL_PHOENIX == 4

\* The constant bound of the for loop.
LoopLimit == 10000

\* n / d in thousandths, to the nearest; d > 0.
Rounded(n, d) ==
  LET r0 == n % d
      r1 == (r0 * 10) % d
      r2 == (r1 * 10) % d
      r3 == (r2 * 10) % d
  IN (n \div d) * 1000 + ((r0 * 10) \div d) * 100 + ((r1 * 10) \div d) * 10
       + (r2 * 10) \div d + (IF 2 * r3 >= d THEN 1 ELSE 0)

dot(a, b) == (a[1] * b[1] + a[2] * b[2]) \div 1000

\* sqrt(x * x + y * y), rounded down.
length(z) ==
  LET n == z[1] * z[1] + z[2] * z[2]
      RECURSIVE root(_, _)
      root(lo, hi) == IF hi - lo <= 1 THEN lo
                      ELSE LET mid == (lo + hi) \div 2
                           IN IF mid * mid <= n THEN root(mid, hi) ELSE root(lo, mid)
  IN root(0, 46341)

complexMul(a, b) ==
  LET re == a[1] * b[1] - a[2] * b[2]
      im == a[1] * b[2] + a[2] * b[1]
  IN <<re \div 1000 + (IF re % 1000 >= 500 THEN 1 ELSE 0),
       im \div 1000 + (IF im % 1000 >= 500 THEN 1 ELSE 0)>>

\* denom < EPSILON (1.0e-10) is b = 0 at this resolution.
complexDiv(a, b) ==
  LET denom == b[1] * b[1] + b[2] * b[2]
  IN IF denom = 0 THEN <<0, 0>>
     ELSE <<Rounded(a[1] * b[1] + a[2] * b[2], denom),
            Rounded(a[2] * b[1] - a[1] * b[2], denom)>>

\* length(z) < EPSILON (1.0e-10) is z = 0 at this resolution.  For a whole
\* exponent the polar form pow(r, n) * (cos(n * theta), sin(n * theta)) is
\* the n-fold product of z; only whole exponents are followed.
complexPow(z, n) ==
  LET RECURSIVE product(_)
      product(k) == IF k = 0 THEN <<1000, 0>> ELSE complexMul(product(k - 1), z)
  IN IF z = <<0, 0>> THEN <<0, 0>> ELSE product(n \div 1000)

iterateMandelbrotJulia(u, z, c) ==
  LET p == complexPow(z, u.u_power) IN <<p[1] + c[1], p[2] + c[2]>>

iterateBurningShip(u, z, c) ==
  LET p == complexPow(<<Abs(z[1]), Abs(z[2])>>, u.u_power)
  IN <<p[1] + c[1], p[2] + c[2]>>

iterateTricorn(u, z, c) ==
  LET p == complexPow(<<z[1], 0 - z[2]>>, u.u_power)
  IN <<p[1] + c[1], p[2] + c[2]>>

\* vec2(0.5667, 0.0) * prevZ is the component-wise product.
iteratePhoenix(u, z, c, prevZ) ==
  LET p == complexPow(z, u.u_power)
  IN <<p[1] + c[1] + (567 * prevZ[1]) \div 1000, p[2] + c[2]>>

\* The roots of z^3 = 1 as the shader writes them.
NEWTON_ROOTS == <<<<1000, 0>>, <<-500, 866>>, <<-500, -866>>>>

\* iterateNewton: the new z and the out parameter rootIndex.  A distance
\* below NEWTON_TOLERANCE (0.0001) is a distance of 0 at this resolution, and
\* length(denom) < EPSILON is denom = 0.
iterateNewton(z) ==
  LET z2 == complexMul(z, z)
      z3 == complexMul(z2, z)
      denom == <<3 * z2[1], 3 * z2[2]>>
      step == complexDiv(<<z3[1] - 1000, z3[2]>>, denom)
      newZ == <<z[1] - step[1], z[2] - step[2]>>
      near(k) == length(<<newZ[1] - NEWTON_ROOTS[k][1],
                          newZ[2] - NEWTON_ROOTS[k][2]>>) = 0
  IN IF length(denom) = 0
       THEN [z |-> z, rootIndex |-> -1]
       ELSE [z |-> newZ,
             rootIndex |-> CASE near(1) -> 0
                             [] near(2) -> 1
                             [] near(3) -> 2
                             [] OTHER -> -1]

\* updateOrbitStats: minDist = min(minDist, length(z)).
updateOrbitStats(z, minDist) == Min(minDist, length(z))

\* main up to the loop: the local variables for the pixel at plane point c.
\* minDist starts at 1e20, here a distance no orbit reaches.
initialize_StartsAtPoint(u, c) ==
  [pc |-> "loop", u |-> u,
   z |-> c,
   c |-> IF u.u_fractalType = FRACTAL_JULIA THEN u.u_julia ELSE c,
   prevZ |-> <<0, 0>>, i |-> 0, iter |-> 0,
   maxIter |-> u.u_maxIterations,
   minDist |-> 1000000, rootIndex |-> -1,
   colorVal |-> 0, gl_FragColor |-> <<0, 0, 0>>]

initialize(u, c) ==
  [pc |-> "loop", u |-> u,
   z |-> IF u.u_fractalType \in {FRACTAL_JULIA, FRACTAL_NEWTON} THEN c ELSE <<0, 0>>,
   c |-> IF u.u_fractalType = FRACTAL_JULIA THEN u.u_julia ELSE c,
   prevZ |-> <<0, 0>>, i |-> 0, iter |-> 0,
   maxIter |-> u.u_maxIterations,
   minDist |-> 1000000, rootIndex |-> -1,
   colorVal |-> 0, gl_FragColor |-> <<0, 0, 0>>]

\* The loop goes on: i < 10000 and not (i >= u_maxIterations).
loopRuns_Thousand(u, i) == i < 1000 /\ ~(i >= u.u_maxIterations)

loopRuns(u, i) == i < LoopLimit /\ ~(i >= u.u_maxIterations)

\* The transition of one pass of an escape-based family, as main dispatches
\* it.
transition(s) ==
  LET type == s.u.u_fractalType
  IN CASE type = FRACTAL_PHOENIX -> iteratePhoenix(s.u, s.z, s.c, s.prevZ)
       [] type = FRACTAL_TRICORN -> iterateTricorn(s.u, s.z, s.c)
       [] type = FRACTAL_BURNING_SHIP -> iterateBurningShip(s.u, s.z, s.c)
       [] OTHER -> iterateMandelbrotJulia(s.u, s.z, s.c)

\* One pass of the loop body: the statistics of the z it starts from, the
\* transition, the convergence or escape test, then the count.
pass_CountsThenTests(s) ==
  LET seen == [s EXCEPT !.minDist = updateOrbitStats(s.z, s.minDist)]
      moved == [seen EXCEPT !.z = transition(s),
                            !.prevZ = IF s.u.u_fractalType = FRACTAL_PHOENIX
                                        THEN s.z ELSE s.prevZ,
                            !.iter = s.iter + 1]
      escapeRadiusSq == (s.u.u_escapeRadius * s.u.u_escapeRadius) \div 1000
  IN IF dot(moved.z, moved.z) > escapeRadiusSq
       THEN [moved EXCEPT !.pc = "color"]
       ELSE [moved EXCEPT !.i = s.i + 1]

pass_StatsAfterTransition(s) ==
  LET newton == iterateNewton(s.z)
      newZ == IF s.u.u_fractalType = FRACTAL_NEWTON THEN newton.z ELSE transition(s)
      moved == [s EXCEPT !.z = newZ,
                         !.minDist = updateOrbitStats(newZ, s.minDist),
                         !.prevZ = IF s.u.u_fractalType = FRACTAL_PHOENIX
                                     THEN s.z ELSE s.prevZ]
      escapeRadiusSq == (s.u.u_escapeRadius * s.u.u_escapeRadius) \div 1000
  IN IF s.u.u_fractalType = FRACTAL_NEWTON
       THEN IF newton.rootIndex >= 0
              THEN [moved EXCEPT !.rootIndex = newton.rootIndex, !.pc = "color"]
              ELSE [moved EXCEPT !.rootIndex = newton.rootIndex,
                                 !.iter = s.iter + 1, !.i = s.i + 1]
       ELSE IF dot(moved.z, moved.z) > escapeRadiusSq
              THEN [moved EXCEPT !.pc = "color"]
              ELSE [moved EXCEPT !.iter = s.iter + 1, !.i = s.i + 1]

pass(s) ==
  LET seen == [s EXCEPT !.minDist = updateOrbitStats(s.z, s.minDist)]
      newton == iterateNewton(s.z)
      moved == [seen EXCEPT !.z = transition(s),
                            !.prevZ = IF s.u.u_fractalType = FRACTAL_PHOENIX
                                        THEN s.z ELSE s.prevZ]
      escapeRadiusSq == (s.u.u_escapeRadius * s.u.u_escapeRadius) \div 1000
  IN IF s.u.u_fractalType = FRACTAL_NEWTON
       THEN IF newton.rootIndex >= 0
              THEN [seen EXCEPT !.z = newton.z, !.rootIndex = newton.rootIndex,
                                !.pc = "color"]
              ELSE [seen EXCEPT !.z = newton.z, !.rootIndex = newton.rootIndex,
                                !.iter = s.iter + 1, !.i = s.i + 1]
       ELSE IF dot(moved.z, moved.z) > escapeRadiusSq
              THEN [moved EXCEPT !.pc = "color"]
              ELSE [moved EXCEPT !.iter = s.iter + 1, !.i = s.i + 1]

calcOrbitTrapColor(u, minDist) ==
  clamp01(1000 - (minDist * 1000) \div u.u_orbitTrapSize)

calcNewtonColor(rootIndex, iter, maxIter) ==
  IF rootIndex >= 0
    THEN (rootIndex * 1000) \div 3 + (((iter * 1000) \div maxIter) * 300) \div 1000
    ELSE 0

\* calculateColorValue; the methods that need log or atan (smooth, angle,
\* stripe, domain) give the value other.
calculateColorValue(s, other) ==
  CASE s.u.u_fractalType = FRACTAL_NEWTON ->
         calcNewtonColor(s.rootIndex, s.iter, s.maxIter)
    [] s.u.u_coloringMethod = 0 -> (s.iter * 1000) \div s.maxIter
    [] s.u.u_coloringMethod = 2 -> calcOrbitTrapColor(s.u, s.minDist)
    [] OTHER -> other

(***************************************************************************)
(* FractalCanvas.tsx: panning.  The handlers read params of the render     *)
(* that created them; setParams merges into the record of that moment.     *)
(***************************************************************************)
\* handleMouseMove: the partial update it passes to onParamsChange, or an
\* empty one when it returns early; p is the params of the last render.
handleMouseMove(isDraggingRef, hasCanvas, rect, p, lastMouseRef, e) ==
  LET dx == e.clientX - lastMouseRef.x
      dy == e.clientY - lastMouseRef.y
      scale == Over(Q(2, 1), By(Q(Min(rect.width, rect.height), 1), p.zoom))
  IN IF ~isDraggingRef \/ ~hasCanvas
       THEN <<>>
       ELSE [centerX |-> Minus(p.centerX, By(Q(dx, 1), scale)),
             centerY |-> Plus(p.centerY, By(Q(dy, 1), scale))]

\* The updater of animate with autoRotate on: stepX and stepY are
\* Math.cos(t) * radius * deltaTime and Math.sin(t) * radius * deltaTime.
animateRotate(prev, stepX, stepY) ==
  IF prev.autoRotate
    THEN handleParamsChange(prev, [centerX |-> Plus(prev.centerX, stepX),
                                   centerY |-> Plus(prev.centerY, stepY)])
    ELSE prev

(***************************************************************************)
(* The pixel a fragment colours, and the pixel a screen position is on     *)
(***************************************************************************)
\* fragment.glsl, main: uv = (gl_FragCoord.xy - u_resolution * 0.5) /
\* min(u_resolution.x, u_resolution.y)
main_uv(u_resolution, gl_FragCoord) ==
  LET m == Min(u_resolution.x, u_resolution.y)
  IN [x |-> Q(2 * gl_FragCoord.x - u_resolution.x, 2 * m),
      y |-> Q(2 * gl_FragCoord.y - u_resolution.y, 2 * m)]

\* fragment.glsl, main: c = uv / u_zoom + u_center
main_c(u_resolution, p, gl_FragCoord) ==
  LET at == main_uv(u_resolution, gl_FragCoord)
  IN [x |-> Plus(Over(at.x, p.zoom), p.centerX),
      y |-> Plus(Over(at.y, p.zoom), p.centerY)]

\* updateCanvasResolution: the drawing buffer is the client box times the
\* pixel ratio; render passes its size as u_resolution.
bufferSize(rect, pixelRatio) ==
  [x |-> rect.width * pixelRatio, y |-> rect.height * pixelRatio]

\* The window position of the fragment shown at a screen position: the
\* buffer is stretched over the client box, and its rows count from the
\* bottom.
fragCoordAt(rect, pixelRatio, screenX, screenY) ==
  [x |-> (screenX - rect.left) * pixelRatio,
   y |-> (rect.height - (screenY - rect.top)) * pixelRatio]

\* The point of the plane displayed at a screen position.
displayedAt(rect, pixelRatio, p, screenX, screenY) ==
  main_c(bufferSize(rect, pixelRatio), p,
         fragCoordAt(rect, pixelRatio, screenX, screenY))

\* handleDoubleClick: the partial update it passes to onParamsChange
handleDoubleClick(hasCanvas, rect, p, clientX, clientY) ==
  LET fractalPos == screenToFractal(hasCanvas, rect, p, clientX, clientY)
  IN [centerX |-> fractalPos.x, centerY |-> fractalPos.y,
      zoom |-> By(p.zoom, Q(2, 1))]

(***************************************************************************)
(* State                                                                   *)
(***************************************************************************)
VARIABLES
  params,          \* FractalEditor: useState params
  paramsIsDefault, \* params is the DEFAULT_FRACTAL_PARAMS object itself
  animationTick,   \* FractalEditor: an animate() callback is pending
  mounted,         \* the editor and its canvas are mounted
  canvas,          \* FractalCanvas: refs and pending callbacks, see InitCanvas
  lastEvent,       \* the task that ran last: "mount", "tick", "timer", "reset",
                   \* "settype", "unmount", or "other" for the remaining ones
  atStartReturn,   \* canvas state on return from the last startInteraction
  adaptive,        \* one evaluation of the iteration cap in render()
  selectors,       \* one conversion of the enum selectors in render()
  pixel,           \* one evaluation of the fragment shader's colouring
  record,          \* the numeric fields of the parameter record and the clock
  gesture,         \* one zoom gesture on the canvas
  store,           \* the persistence collaborator and the last response
  orbit            \* the iteration loop of the fragment shader for one pixel

controllerVars == <<params, paramsIsDefault, animationTick, mounted, canvas,
                    lastEvent, atStartReturn>>
restVars == <<record, gesture, store, orbit>>
functionVars == <<adaptive, selectors, pixel, record, gesture, store, orbit>>
vars == <<params, paramsIsDefault, animationTick, mounted, canvas, lastEvent,
          atStartReturn, adaptive, selectors, pixel, record, gesture, store,
          orbit>>

\* canvas fields:
\*   canvasRef             canvasRef.current is set (the canvas is mounted)
\*   glReady               glRef and programRef are set (WebGL available)
\*   isInteractingRef      isInteractingRef.current
\*   resolutionScaleRef    resolutionScaleRef.current
\*   refinementTimeoutRef  "null", "live" (handle of a pending timer) or
\*                         "dead" (handle of a timer that fired or was cleared)
\*   timers                number of pending refinement timers
\*   animationFrameRef     closure of the pending frame whose handle is in
\*                         animationFrameRef.current: "none", "fresh" (render
\*                         of the current params) or "stale" (of older params)
\*   untracked             pending frames whose handle is not recorded
\*   isDraggingRef         isDraggingRef.current
\*   touches               number of fingers on the canvas
\*   lastTouchCenterRef    lastTouchCenterRef.current is set
\*   lastTapTimeRef        lastTapTimeRef.current is the time of a single tap
\*   renderCalls           draws performed by the task that ran last
\*   staleDraws            draws of an outdated params record by that task
\*   undrawn               the drawing buffer was reset and not drawn since
InitCanvas(gl) ==
  [ canvasRef            |-> TRUE,
    glReady              |-> gl,
    isInteractingRef     |-> FALSE,
    resolutionScaleRef   |-> FULL_SCALE,
    refinementTimeoutRef |-> "null",
    timers               |-> 0,
    animationFrameRef    |-> "none",
    untracked            |-> [fresh |-> 0, stale |-> 0],
    isDraggingRef        |-> FALSE,
    touches              |-> 0,
    lastTouchCenterRef   |-> FALSE,
    lastTapTimeRef       |-> FALSE,
    renderCalls          |-> 0,
    staleDraws           |-> 0,
    undrawn              |-> FALSE ]

\* Start of a task: the per-task counters are reset.
Begin(c) == [c EXCEPT !.renderCalls = 0, !.staleDraws = 0]

(***************************************************************************)
(* FractalCanvas.tsx: resolution, interaction, render                      *)
(***************************************************************************)
\* updateCanvasResolution (lines 100-110): assigning canvas.width/height
\* resets the drawing buffer.
updateCanvasResolution(c, scale) ==
  IF ~c.canvasRef THEN c
  ELSE [c EXCEPT !.resolutionScaleRef = scale, !.undrawn = TRUE]

\* clearTimeout(refinementTimeoutRef.current)
clearRefinementTimeout(c) ==
  IF c.refinementTimeoutRef = "live"
  THEN [c EXCEPT !.timers = @ - 1, !.refinementTimeoutRef = "dead"]
  ELSE c

\* startInteraction that leaves a pending refinement timer alone.
startInteraction_KeepsTimer(c) ==
  IF ~c.isInteractingRef
  THEN updateCanvasResolution([c EXCEPT !.isInteractingRef = TRUE],
                              INTERACTION_SCALE)
  ELSE c

\* startInteraction (lines 113-123)
startInteraction(c) ==
  LET c1 == IF c.refinementTimeoutRef # "null"
            THEN [clearRefinementTimeout(c) EXCEPT !.refinementTimeoutRef = "null"]
            ELSE c
  IN IF ~c1.isInteractingRef
     THEN updateCanvasResolution([c1 EXCEPT !.isInteractingRef = TRUE],
                                 INTERACTION_SCALE)
     ELSE c1

\* endInteraction that sets a new timer without clearing the previous one.
endInteraction_NoClear(c) ==
  [c EXCEPT !.isInteractingRef = FALSE,
            !.timers = Min(@ + 1, MaxTimers),
            !.refinementTimeoutRef = "live"]

\* endInteraction (lines 126-139): the timer callback is RefinementTimerFires
endInteraction(c) ==
  LET c1 == [c EXCEPT !.isInteractingRef = FALSE]
      c2 == IF c1.refinementTimeoutRef # "null"
            THEN clearRefinementTimeout(c1)
            ELSE c1
  IN [c2 EXCEPT !.timers = Min(@ + 1, MaxTimers), !.refinementTimeoutRef = "live"]

\* animationFrameRef.current = requestAnimationFrame(render): the handle that
\* was recorded is overwritten; if its callback is still pending it stays
\* pending, but no reference to it is left.
requestAnimationFrame(c, closure) ==
  LET old == c.animationFrameRef
      c1  == IF old = "none" THEN c
             ELSE [c EXCEPT !.untracked[old] = Min(@ + 1, MaxUntracked)]
  IN [c1 EXCEPT !.animationFrameRef = closure]

\* cancelAnimationFrame(animationFrameRef.current): a handle of a callback
\* that already ran cancels nothing.
cancelAnimationFrame(c) == [c EXCEPT !.animationFrameRef = "none"]

\* render (lines 162-221) of the closure `closure`, whose params have
\* colorCycleSpeed > 0 || animateJulia exactly if `continues`.
renderClosure(c, closure, continues) ==
  IF ~(c.glReady /\ c.canvasRef) THEN c
  ELSE LET drawn == [c EXCEPT !.renderCalls = @ + 1,
                              !.staleDraws = @ + (IF closure = "stale" THEN 1 ELSE 0),
                              !.undrawn = FALSE]
       IN IF continues THEN requestAnimationFrame(drawn, closure) ELSE drawn

\* render() of the current render callback (renderRef.current), for params p.
render(c, p) == renderClosure(c, "fresh", p.colorCycleSpeed > 0 \/ p.animateJulia)

(***************************************************************************)
(* React commit of a new params object: the effects of both components     *)
(***************************************************************************)
\* Every pending frame callback closes over the render of the params it was
\* scheduled for; once params is replaced those closures are outdated.
Outdate(c) ==
  [c EXCEPT !.animationFrameRef = IF @ = "none" THEN "none" ELSE "stale",
            !.untracked = [fresh |-> 0,
                           stale |-> Min(@.stale + @.fresh, MaxUntracked)]]

\* The dependencies of the performance-mode effect (line 339).
PerformanceDeps(p) ==
  <<p.performanceMode, p.colorCycleSpeed, p.animateJulia, p.autoZoom,
    p.autoRotate, p.autoHueShift, p.autoPower>>

\* Performance-mode effect (lines 327-339).
performanceEffect(c, p) ==
  IF p.performanceMode /\ isAnimating(p)
  THEN IF c.resolutionScaleRef # PERFORMANCE_SCALE
       THEN updateCanvasResolution(c, PERFORMANCE_SCALE)
       ELSE c
  ELSE IF ~c.isInteractingRef /\ c.resolutionScaleRef # FULL_SCALE
       THEN updateCanvasResolution(c, FULL_SCALE)
       ELSE c

\* WebGL init effect (lines 226-286): re-runs whenever render changes and
\* ends with render().
initEffect(c, p) == IF c.glReady THEN render(c, p) ELSE c

\* Render effect (lines 288-300): cleanup of the previous run, then the body.
renderEffectCleanup(c) ==
  IF c.animationFrameRef # "none" THEN cancelAnimationFrame(c) ELSE c

renderEffect(c, p) ==
  render(IF c.animationFrameRef # "none" THEN cancelAnimationFrame(c) ELSE c, p)

\* The canvas effects after params went from old to new (a new object, so
\* the render callback is a new one): cleanups first, then the bodies in the
\* order they are declared.
CanvasCommit(c, old, new) ==
  LET c1 == renderEffectCleanup(Outdate(c))
      c2 == initEffect(c1, new)
      c3 == renderEffect(c2, new)
  IN IF PerformanceDeps(old) # PerformanceDeps(new)
     THEN performanceEffect(c3, new)
     ELSE c3

\* The dependencies of the auto-animation effect (FractalEditor.tsx:104-116)
\* among the modelled fields.
AnimationDeps(p) ==
  <<p.autoZoom, p.autoRotate, p.autoHueShift, p.autoPower, p.colorCycleSpeed,
    p.animateJulia>>

\* Auto-animation effect (FractalEditor.tsx:36-116): cleanup cancels the
\* recorded animate() frame, the body schedules one if an animation is on.
animationEffect(tick, old, new) ==
  IF AnimationDeps(old) # AnimationDeps(new) THEN hasAnimation(new) ELSE tick

(***************************************************************************)
(* Initial state: the editor mounted with the default params; the mount    *)
(* effects have run (two render() calls, nothing scheduled).               *)
(***************************************************************************)
NoSnapshot == [taken |-> FALSE, scale |-> FULL_SCALE, timers |-> 0]
Snapshot(c) == [taken |-> TRUE, scale |-> c.resolutionScaleRef, timers |-> c.timers]

\* The function evaluations are not part of the controller's behaviour.
Idle == [done |-> FALSE]
RestIdle == record = Idle /\ gesture = Idle /\ store = Idle /\ orbit = Idle

InitController ==
  /\ params = DEFAULT_FRACTAL_PARAMS
  /\ paramsIsDefault = TRUE
  /\ animationTick = FALSE
  /\ mounted = TRUE
  /\ \E gl \in BOOLEAN :
       canvas = renderEffect(initEffect(InitCanvas(gl), DEFAULT_FRACTAL_PARAMS),
                             DEFAULT_FRACTAL_PARAMS)
  /\ lastEvent = "mount"
  /\ atStartReturn = NoSnapshot

Init ==
  /\ InitController
  /\ adaptive = Idle
  /\ selectors = Idle
  /\ pixel = Idle
  /\ RestIdle

\* Every task of the controller records itself and leaves the function
\* evaluations alone.
Event(e) ==
  /\ lastEvent' = e
  /\ UNCHANGED functionVars

\* setParams with a new object `new`, after the handler left the canvas refs
\* as c: React re-renders both components and runs their effects.
Commit(c, new) ==
  /\ params' = new
  /\ paramsIsDefault' = FALSE
  /\ animationTick' = animationEffect(animationTick, params, new)
  /\ canvas' = CanvasCommit(c, params, new)

(***************************************************************************)
(* FractalCanvas.tsx: input handlers                                       *)
(***************************************************************************)
\* handleMouseDown (lines 342-348)
MouseDown ==
  /\ mounted
  /\ LET c == startInteraction([Begin(canvas) EXCEPT !.isDraggingRef = TRUE])
     IN /\ canvas' = c
        /\ atStartReturn' = Snapshot(c)
  /\ Event("other")
  /\ UNCHANGED <<params, paramsIsDefault, animationTick, mounted>>

\* handleMouseMove (lines 350-370): pans while dragging
MouseMove ==
  /\ mounted
  /\ canvas.isDraggingRef
  /\ Commit(Begin(canvas), params)
  /\ Event("other")
  /\ UNCHANGED <<mounted, atStartReturn>>

\* handleMouseUp (lines 372-375), also bound to onMouseLeave
MouseUp ==
  /\ mounted
  /\ canvas' = endInteraction([Begin(canvas) EXCEPT !.isDraggingRef = FALSE])
  /\ Event("other")
  /\ UNCHANGED <<params, paramsIsDefault, animationTick, mounted, atStartReturn>>

\* handleDoubleClick (lines 378-385)
DoubleClick ==
  /\ mounted
  /\ Commit(Begin(canvas), params)
  /\ Event("other")
  /\ UNCHANGED <<mounted, atStartReturn>>

\* handleWheel (lines 387-420): startInteraction, onParamsChange,
\* endInteraction; the commit follows the handler.
Wheel ==
  /\ mounted
  /\ LET c1 == startInteraction(Begin(canvas))
     IN /\ atStartReturn' = Snapshot(c1)
        /\ Commit(endInteraction(c1), params)
  /\ Event("other")
  /\ UNCHANGED mounted

\* handleTouchStart (lines 440-469) with n fingers now on the canvas; quick
\* tells whether less than 300 ms passed since lastTapTimeRef.
TouchStart(n, quick) ==
  /\ mounted
  /\ n > canvas.touches
  /\ LET c0 == [Begin(canvas) EXCEPT !.touches = n]
         c1 == startInteraction(c0)
     IN /\ atStartReturn' = Snapshot(c1)
        /\ IF n = 1 /\ c1.lastTapTimeRef /\ quick
           THEN Commit(endInteraction([c1 EXCEPT !.lastTapTimeRef = FALSE]), params)
           ELSE /\ canvas' = IF n = 1
                             THEN [c1 EXCEPT !.lastTapTimeRef = TRUE,
                                             !.isDraggingRef = TRUE,
                                             !.lastTouchCenterRef = TRUE]
                             ELSE [c1 EXCEPT !.lastTouchCenterRef = TRUE]
                /\ UNCHANGED <<params, paramsIsDefault, animationTick>>
  /\ Event("other")
  /\ UNCHANGED mounted

\* handleTouchMove (lines 471-503): pinch and pan call onParamsChange; both
\* calls of one handler are batched into one commit.
TouchMove ==
  /\ mounted
  /\ canvas.touches > 0
  /\ LET c == [Begin(canvas) EXCEPT !.lastTouchCenterRef = TRUE]
     IN IF canvas.touches = 2 \/ canvas.lastTouchCenterRef
        THEN Commit(c, params)
        ELSE /\ canvas' = c
             /\ UNCHANGED <<params, paramsIsDefault, animationTick>>
  /\ Event("other")
  /\ UNCHANGED <<mounted, atStartReturn>>

\* handleTouchEnd (lines 505-515), also onTouchCancel, with rest fingers left
TouchEnd(rest) ==
  /\ mounted
  /\ rest < canvas.touches
  /\ LET c == [Begin(canvas) EXCEPT !.touches = rest]
     IN canvas' = IF rest = 0
                  THEN endInteraction([c EXCEPT !.isDraggingRef = FALSE,
                                                !.lastTouchCenterRef = FALSE])
                  ELSE [c EXCEPT !.lastTouchCenterRef = TRUE]
  /\ Event("other")
  /\ UNCHANGED <<params, paramsIsDefault, animationTick, mounted, atStartReturn>>

(***************************************************************************)
(* FractalCanvas.tsx: callbacks                                            *)
(***************************************************************************)
\* ResizeObserver callback (lines 307-311)
Resize ==
  /\ mounted
  /\ canvas' = render(updateCanvasResolution(Begin(canvas),
                                             canvas.resolutionScaleRef), params)
  /\ Event("other")
  /\ UNCHANGED <<params, paramsIsDefault, animationTick, mounted, atStartReturn>>

\* The timer callback of endInteraction (lines 133-138).  Timers of equal
\* delay fire in the order they were set, the recorded one last.
refinementCallback(c, p) ==
  LET c1 == [c EXCEPT !.timers = @ - 1,
                      !.refinementTimeoutRef =
                         IF @ = "live" /\ c.timers = 1 THEN "dead" ELSE @]
  IN IF c1.resolutionScaleRef # FULL_SCALE
     THEN render(updateCanvasResolution(c1, FULL_SCALE), p)
     ELSE c1

RefinementTimerFires ==
  /\ canvas.timers > 0
  /\ canvas' = refinementCallback(Begin(canvas), params)
  /\ Event("timer")
  /\ UNCHANGED <<params, paramsIsDefault, animationTick, mounted, atStartReturn>>

\* A pending requestAnimationFrame(render) callback runs: the recorded one
\* or an untracked one.  Its closure scheduled it, so that closure's params
\* have colorCycleSpeed > 0 || animateJulia and it schedules itself again.
TrackedFrameFires ==
  /\ canvas.animationFrameRef # "none"
  /\ canvas' = renderClosure([Begin(canvas) EXCEPT !.animationFrameRef = "none"],
                             canvas.animationFrameRef, TRUE)
  /\ Event("other")
  /\ UNCHANGED <<params, paramsIsDefault, animationTick, mounted, atStartReturn>>

UntrackedFrameFires(closure) ==
  /\ canvas.untracked[closure] > 0
  /\ canvas' = renderClosure([Begin(canvas) EXCEPT !.untracked[closure] = @ - 1],
                             closure, TRUE)
  /\ Event("other")
  /\ UNCHANGED <<params, paramsIsDefault, animationTick, mounted, atStartReturn>>

(***************************************************************************)
(* FractalEditor.tsx                                                       *)
(***************************************************************************)
\* animate (lines 53-95): one merged setParams, then the next tick is
\* requested (line 94); the value is whether a tick is pending afterwards.
\* animate_Stops is an animate that does not request the next tick.
animate_Stops(tick) == FALSE

animate(tick) == TRUE

AnimationTick ==
  /\ mounted
  /\ animationTick
  /\ params' = params
  /\ paramsIsDefault' = FALSE
  /\ canvas' = CanvasCommit(Begin(canvas), params, params)
  /\ animationTick' = animate(animationTick)
  /\ Event("tick")
  /\ UNCHANGED <<mounted, atStartReturn>>

\* handleParamsChange (lines 27-29) from the controls
Toggle(f) ==
  /\ mounted
  /\ Commit(Begin(canvas), [params EXCEPT ![f] = ~@])
  /\ Event("other")
  /\ UNCHANGED <<mounted, atStartReturn>>

SetColorCycleSpeed(v) ==
  /\ mounted
  /\ v # params.colorCycleSpeed
  /\ Commit(Begin(canvas), [params EXCEPT !.colorCycleSpeed = v])
  /\ Event("other")
  /\ UNCHANGED <<mounted, atStartReturn>>

\* the "Stop All" preset of the controls
StopAll ==
  /\ mounted
  /\ Commit(Begin(canvas), [params EXCEPT !.autoZoom = FALSE,
                                          !.autoRotate = FALSE,
                                          !.autoHueShift = FALSE,
                                          !.autoPower = FALSE,
                                          !.colorCycleSpeed = 0])
  /\ Event("other")
  /\ UNCHANGED <<mounted, atStartReturn>>

\* the fractal type selector
SetType(t) ==
  /\ mounted
  /\ t # params.type
  /\ Commit(Begin(canvas), [params EXCEPT !.type = t])
  /\ Event("settype")
  /\ UNCHANGED <<mounted, atStartReturn>>

\* handleReset (lines 31-33): setParams(DEFAULT_FRACTAL_PARAMS); React skips
\* the re-render when the state already is that object.
handleReset ==
  /\ mounted
  /\ IF paramsIsDefault
     THEN /\ canvas' = Begin(canvas)
          /\ UNCHANGED <<params, paramsIsDefault, animationTick>>
     ELSE /\ params' = DEFAULT_FRACTAL_PARAMS
          /\ paramsIsDefault' = TRUE
          /\ animationTick' = animationEffect(animationTick, params,
                                              DEFAULT_FRACTAL_PARAMS)
          /\ canvas' = CanvasCommit(Begin(canvas), params, DEFAULT_FRACTAL_PARAMS)
  /\ Event("reset")
  /\ UNCHANGED <<mounted, atStartReturn>>

\* Cleanups at unmount (FractalCanvas.tsx:295-299, 314, 318-324 and
\* FractalEditor.tsx:99-103); React then clears canvasRef.
unmountCleanup(c) ==
  LET c1 == renderEffectCleanup(c)
      c2 == IF c1.refinementTimeoutRef # "null" THEN clearRefinementTimeout(c1) ELSE c1
  IN [c2 EXCEPT !.canvasRef = FALSE]

Unmount ==
  /\ mounted
  /\ mounted' = FALSE
  /\ animationTick' = FALSE
  /\ canvas' = unmountCleanup(Begin(canvas))
  /\ Event("unmount")
  /\ UNCHANGED <<params, paramsIsDefault, atStartReturn>>

Next ==
  \/ MouseDown
  \/ MouseMove
  \/ MouseUp
  \/ DoubleClick
  \/ Wheel
  \/ \E n \in 1..2 : \E quick \in BOOLEAN : TouchStart(n, quick)
  \/ TouchMove
  \/ \E rest \in 0..1 : TouchEnd(rest)
  \/ Resize
  \/ RefinementTimerFires
  \/ TrackedFrameFires
  \/ \E closure \in {"fresh", "stale"} : UntrackedFrameFires(closure)
  \/ AnimationTick
  \/ \E f \in ToggleFields : Toggle(f)
  \/ \E v \in CycleChoices : SetColorCycleSpeed(v)
  \/ StopAll
  \/ \E t \in TypeChoices : SetType(t)
  \/ handleReset
  \/ Unmount

Spec == Init /\ [][Next]_vars

(***************************************************************************)
(* The iteration cap of one render(): inputs drawn at the start            *)
(***************************************************************************)
\* Base caps tried (the slider offers 10..2000).
BaseChoices == {10, 100, 150, 600, 2000}

ZoomChoices == {Zoom(m, e) : m \in {1, 2, 5}, e \in -2..MaxZoomExp}

AnimationChoices ==
  { DEFAULT_FRACTAL_PARAMS,
    [DEFAULT_FRACTAL_PARAMS EXCEPT !.performanceMode = TRUE],
    [DEFAULT_FRACTAL_PARAMS EXCEPT !.autoZoom = TRUE],
    [DEFAULT_FRACTAL_PARAMS EXCEPT !.performanceMode = TRUE, !.autoZoom = TRUE],
    [DEFAULT_FRACTAL_PARAMS EXCEPT !.performanceMode = TRUE, !.colorCycleSpeed = 5] }

InitAdaptive ==
  /\ InitController
  /\ \E p \in AnimationChoices, b \in BaseChoices, z \in ZoomChoices, m \in BOOLEAN :
       adaptive = [done |-> FALSE, params |-> p, maxIterations |-> b, zoom |-> z,
                   isMobileRef |-> m, u_maxIterations |-> 0]
  /\ selectors = Idle
  /\ pixel = Idle
  /\ RestIdle

RenderIterations ==
  /\ ~adaptive.done
  /\ adaptive' = [adaptive EXCEPT
                    !.done = TRUE,
                    !.u_maxIterations = effectiveIterations(adaptive.params,
                                           adaptive.maxIterations, adaptive.zoom,
                                           adaptive.isMobileRef)]
  /\ UNCHANGED <<controllerVars, selectors, pixel, restVars>>

AdaptiveSpec == InitAdaptive /\ [][RenderIterations]_vars

(***************************************************************************)
(* The selectors of one render(): strings from persisted or external input *)
(***************************************************************************)
\* Strings that are no member of any of the three enums.
ForeignStrings == {"", "sierpinski", "Mandelbrot", "constructor", "toString",
                   "__proto__"}

InitSelectors ==
  /\ InitController
  /\ adaptive = Idle
  /\ \E t \in DOMAIN types \cup ForeignStrings,
        cs \in DOMAIN schemes \cup ForeignStrings,
        cm \in DOMAIN methods \cup ForeignStrings :
       selectors = [done |-> FALSE, type |-> t, colorScheme |-> cs,
                    coloringMethod |-> cm,
                    typeInt |-> Undefined, schemeInt |-> Undefined,
                    methodInt |-> Undefined,
                    u_fractalType |-> 0, u_colorScheme |-> 0, u_coloringMethod |-> 0]
  /\ pixel = Idle
  /\ RestIdle

\* render (lines 188, 201, 202)
RenderSelectors ==
  /\ ~selectors.done
  /\ LET t == fractalTypeToInt(selectors.type)
         cs == colorSchemeToInt(selectors.colorScheme)
         cm == coloringMethodToInt(selectors.coloringMethod)
     IN selectors' = [selectors EXCEPT
                        !.done = TRUE,
                        !.typeInt = t, !.schemeInt = cs, !.methodInt = cm,
                        !.u_fractalType = uniform1i(t),
                        !.u_colorScheme = uniform1i(cs),
                        !.u_coloringMethod = uniform1i(cm)]
  /\ UNCHANGED <<controllerVars, adaptive, pixel, restVars>>

SelectorSpec == InitSelectors /\ [][RenderSelectors]_vars

(***************************************************************************)
(* One pixel of one draw: the uniforms and what the iteration loop left    *)
(***************************************************************************)
\* Every family and palette, each effect at an end of its slider (hue shift
\* off and a quarter turn, posterize off and four levels).
UniformChoices ==
  { [u_fractalType |-> ft, u_colorScheme |-> cs, u_hueShift |-> h,
     u_saturation |-> s, u_brightness |-> b, u_glowIntensity |-> g,
     u_posterize |-> p] :
      ft \in 0..5, cs \in 0..8, h \in {0, 250}, s \in {0, 1000, 2000},
      b \in {100, 3000}, g \in {0, 2000}, p \in {0, 4000} }

CapChoices == {1, 10, MaxCap}

InitPixel ==
  /\ InitController
  /\ adaptive = Idle
  /\ selectors = Idle
  /\ RestIdle
  /\ \E u \in UniformChoices, cap \in CapChoices, cv \in {0, 250, 1300} :
       \E it \in {0, cap \div 2, cap} :
         pixel = [done |-> FALSE, u |-> u, iter |-> it, maxIter |-> cap,
                  colorVal |-> cv, gl_FragColor |-> <<0, 0, 0>>]

Shade ==
  /\ ~pixel.done
  /\ pixel' = [pixel EXCEPT
                 !.done = TRUE,
                 !.gl_FragColor = main(pixel.u, pixel.iter, pixel.maxIter,
                                       pixel.colorVal)]
  /\ UNCHANGED <<controllerVars, adaptive, selectors, restVars>>

PixelSpec == InitPixel /\ [][Shade]_vars

(***************************************************************************)
(* The parameter record under the canvas gestures, the controls and the    *)
(* animation driver: its numeric fields only                               *)
(***************************************************************************)
hasNumericAnimation(p) == p.autoZoom \/ p.autoHueShift \/ p.autoPower

\* Zoom values a record starts with: the default, and the ends of the zoom
\* slider as loaded from a saved fractal.
InitialZoomLn == {0, -46, 184}

InitRecord ==
  /\ InitController
  /\ adaptive = Idle /\ selectors = Idle /\ pixel = Idle
  /\ gesture = Idle /\ store = Idle /\ orbit = Idle
  /\ \E ln \in InitialZoomLn :
       record = [params |-> [DEFAULT_NUMERIC_PARAMS EXCEPT !.zoom = Pos(ln)],
                 lastTimeRef |-> 0, now |-> 100, steps |-> 0,
                 frame |-> FALSE, deltaTime |-> 0, lastUpdate |-> <<>>]

\* onParamsChange(newParams) from a handler or a control
Update(newParams) ==
  /\ record.steps < MaxSteps
  /\ record' = [record EXCEPT
                  !.params = handleParamsChange(record.params, newParams),
                  !.steps = @ + 1,
                  !.frame = FALSE,
                  !.lastUpdate = newParams]
  /\ UNCHANGED <<controllerVars, adaptive, selectors, pixel, gesture, store, orbit>>

\* handleWheel: zoomFactor 0.9 or 1.1
RecordWheel ==
  \E zoomFactor \in {Pos(-1), Pos(1)} :
    Update([zoom |-> times(record.params.zoom, zoomFactor)])

\* handleDoubleClick and the double tap of handleTouchStart
RecordDoubleClick == Update([zoom |-> times(record.params.zoom, Pos(LN_2))])

\* handleTouchMove with two touches, lastTouchDistanceRef holding last
RecordPinch ==
  \E currentDistance \in {0, 50, 200}, last \in {50, 200} :
    /\ currentDistance # 0
    /\ Update([zoom |-> times(record.params.zoom,
                              Pos(LnDistance(currentDistance) - LnDistance(last)))])

\* The zoom slider: Math.pow(10, value), value in -2..8
ZoomSlider == \E value \in {-2, 0, 8} : Update([zoom |-> Pos(23 * value)])

\* The hue shift slider: 0..1, step 0.01
HueSlider == \E value \in {0, 500, 1000} : Update([hueShift |-> value])

\* The power slider: 1..8, step 0.1
PowerSlider == \E value \in {1000, 2000, 8000} : Update([power |-> value])

\* The number inputs of the speeds
TypeGlobalSpeed ==
  \E text \in {"", "0", "2", "20"} :
    Update([globalAnimSpeed |-> OrElse(parseFloat(text), 100, 10)])

TypeAutoZoomSpeed ==
  \E text \in {"", "-2", "0.05", "2"} :
    Update([autoZoomSpeed |-> OrElse(parseFloat(text), 0, 100)])

TypeAutoHueSpeed ==
  \E text \in {"", "-0.5", "1"} :
    Update([autoHueSpeed |-> OrElse(parseFloat(text), 10, 100)])

\* The ON/OFF buttons of the animations
ToggleAuto ==
  \E f \in {"autoZoom", "autoHueShift", "autoPower"} :
    Update([g \in {f} |-> ~record.params[g]])

\* handleReset
RecordReset == Update(DEFAULT_NUMERIC_PARAMS)

\* animate(currentTime), with the frame arriving elapsed after the last one
AnimateFrame ==
  \E elapsed \in {2, 100, 40000}, phase \in {0, 250, 750} :
    /\ record.steps < MaxSteps
    /\ hasNumericAnimation(record.params)
    /\ LET currentTime == record.now + elapsed
           last == IF record.lastTimeRef = 0 THEN currentTime ELSE record.lastTimeRef
           deltaTime == currentTime - last
       IN record' = [record EXCEPT
                       !.params = animateUpdates(record.params,
                                                 record.params.globalAnimSpeed,
                                                 deltaTime, phase),
                       !.lastTimeRef = currentTime,
                       !.now = currentTime,
                       !.steps = @ + 1,
                       !.frame = TRUE,
                       !.deltaTime = deltaTime,
                       !.lastUpdate = <<>>]
    /\ UNCHANGED <<controllerVars, adaptive, selectors, pixel, gesture, store, orbit>>

RecordNext ==
  \/ RecordWheel
  \/ RecordDoubleClick
  \/ RecordPinch
  \/ ZoomSlider
  \/ HueSlider
  \/ PowerSlider
  \/ TypeGlobalSpeed
  \/ TypeAutoZoomSpeed
  \/ TypeAutoHueSpeed
  \/ ToggleAuto
  \/ RecordReset
  \/ AnimateFrame

RecordSpec == InitRecord /\ [][RecordNext]_vars

(***************************************************************************)
(* One zoom gesture: a wheel step or a pinch step at a screen position     *)
(***************************************************************************)
RectChoices == {[left |-> 0, top |-> 0, width |-> 800, height |-> 600],
                [left |-> 10, top |-> 20, width |-> 300, height |-> 300]}

ViewChoices ==
  { [zoom |-> z, centerX |-> cx, centerY |-> cy] :
      z \in {Q(1, 2), Q(1, 1), Q(100, 1)},
      cx \in {Q(-1, 2), Q(0, 1)},
      cy \in {Q(0, 1), Q(1, 3)} }

\* Screen positions: the centre of either canvas, and points off it.
PointChoices == {<<400, 300>>, <<160, 170>>, <<100, 250>>, <<310, 20>>}

\* Half the vector between the two touches of a pinch.
SpreadChoices == {<<30, 40>>, <<60, 80>>, <<50, 0>>}

InitGesture ==
  /\ InitController
  /\ adaptive = Idle /\ selectors = Idle /\ pixel = Idle
  /\ record = Idle /\ store = Idle /\ orbit = Idle
  /\ \E rect \in RectChoices, p \in ViewChoices, at \in PointChoices,
        hasCanvas \in BOOLEAN :
       gesture = [done |-> FALSE, kind |-> "none", canvas |-> hasCanvas,
                  rect |-> rect, params |-> p, zoomBefore |-> p.zoom,
                  clientX |-> at[1], clientY |-> at[2],
                  factor |-> Q(1, 1), centerMoved |-> FALSE,
                  before |-> screenToFractal(hasCanvas, rect, p, at[1], at[2]),
                  after |-> screenToFractal(hasCanvas, rect, p, at[1], at[2])]

Finish(kind, factor, centerMoved, newParams) ==
  /\ gesture' = [gesture EXCEPT
                   !.done = TRUE, !.kind = kind, !.factor = factor,
                   !.centerMoved = centerMoved,
                   !.params = newParams,
                   !.after = screenToFractal(gesture.canvas, gesture.rect, newParams,
                                             gesture.clientX, gesture.clientY)]
  /\ UNCHANGED <<controllerVars, adaptive, selectors, pixel, record, store, orbit>>

\* A wheel event at (clientX, clientY)
WheelStep ==
  \E deltaY \in {-100, 100} :
    /\ ~gesture.done
    /\ Finish("wheel", IF deltaY > 0 THEN Q(9, 10) ELSE Q(11, 10), FALSE,
              handleParamsChange(gesture.params,
                                 handleWheel(gesture.canvas, gesture.rect,
                                             gesture.params, gesture.clientX,
                                             gesture.clientY, deltaY)))

\* A touch move with two touches around (clientX, clientY); the touches
\* of the event before were around the same point or 10 pixels left of it.
PinchStep ==
  \E last \in SpreadChoices, current \in SpreadChoices, moved \in BOOLEAN :
    /\ ~gesture.done
    /\ gesture.canvas
    /\ LET touchesAround(x, y, s) ==
             <<[clientX |-> x - s[1], clientY |-> y - s[2]],
               [clientX |-> x + s[1], clientY |-> y + s[2]]>>
           lastX == IF moved THEN gesture.clientX - 10 ELSE gesture.clientX
           lastTouches == touchesAround(lastX, gesture.clientY, last)
           touches == touchesAround(gesture.clientX, gesture.clientY, current)
       IN Finish("pinch",
                 Q(getTouchDistance(touches), getTouchDistance(lastTouches)),
                 moved,
                 handleTouchMove(gesture.rect, gesture.params, touches,
                                 getTouchDistance(lastTouches),
                                 getTouchCenter(lastTouches)))

GestureNext == WheelStep \/ PinchStep

GestureSpec == InitGesture /\ [][GestureNext]_vars

(***************************************************************************)
(* Requests against the store, one request per step                        *)
(***************************************************************************)
Users == {"alice", "bob"}
\* session?.user?.id: a user, or "none" without a session
Sessions == Users \cup {"none"}
Ids == 1..MaxFractals

\* Parameter records that are saved: the defaults and two edited ones.
SavedChoices ==
  { DEFAULT_SAVED_PARAMS,
    [DEFAULT_SAVED_PARAMS EXCEPT !.zoom = 5, !.colorScheme = "fire"],
    [DEFAULT_SAVED_PARAMS EXCEPT !.type = "julia", !.power = 3,
                                 !.coloringMethod = "orbit", !.autoZoom = TRUE] }

BodyChoices ==
  { [f \in DOMAIN p \cup {"isPublic"} |-> IF f = "isPublic" THEN pub ELSE p[f]] :
      p \in SavedChoices, pub \in BOOLEAN }

InitStore ==
  /\ InitController
  /\ adaptive = Idle /\ selectors = Idle /\ pixel = Idle
  /\ record = Idle /\ gesture = Idle /\ orbit = Idle
  /\ store = [fractals |-> [id \in Ids |-> NoFractal], created |-> 0,
              method |-> "none", id |-> 0, session |-> "none",
              status |-> 0, body |-> NoFractal, loaded |-> <<>>]

Respond(method, id, session, status, body, fractals) ==
  /\ store' = [store EXCEPT !.method = method, !.id = id, !.session = session,
                            !.status = status, !.body = body,
                            !.fractals = fractals, !.loaded = <<>>]
  /\ UNCHANGED <<controllerVars, adaptive, selectors, pixel, record, gesture, orbit>>

\* POST /api/fractals
POST(session, data) ==
  IF session = "none" THEN Respond("POST", 0, session, 401, NoFractal, store.fractals)
  ELSE /\ store.created < MaxFractals
       /\ LET id == store.created + 1
              fractal == createData(data, session)
          IN /\ store' = [store EXCEPT
                            !.method = "POST", !.id = id, !.session = session,
                            !.status = 200, !.body = fractal,
                            !.fractals = [@ EXCEPT ![id] = fractal],
                            !.created = id, !.loaded = <<>>]
             /\ UNCHANGED <<controllerVars, adaptive, selectors, pixel, record,
                            gesture, orbit>>

\* GET /api/fractals/[id]
GET(id, session) ==
  LET fractal == store.fractals[id]
  IN IF ~fractal.exists THEN Respond("GET", id, session, 404, NoFractal, store.fractals)
     ELSE IF ~mayRead(fractal, session)
       THEN Respond("GET", id, session, 401, NoFractal, store.fractals)
     ELSE Respond("GET", id, session, 200, fractal, store.fractals)

\* PUT /api/fractals/[id]
PUT(id, session, data) ==
  LET existingFractal == store.fractals[id]
  IN IF session = "none" THEN Respond("PUT", id, session, 401, NoFractal, store.fractals)
     ELSE IF ~existingFractal.exists
       THEN Respond("PUT", id, session, 404, NoFractal, store.fractals)
     ELSE IF existingFractal.userId # session
       THEN Respond("PUT", id, session, 401, NoFractal, store.fractals)
     ELSE LET fractal == updateData(existingFractal, data, session)
          IN Respond("PUT", id, session, 200, fractal,
                     [store.fractals EXCEPT ![id] = fractal])

\* DELETE /api/fractals/[id]
DELETE(id, session) ==
  LET existingFractal == store.fractals[id]
  IN IF session = "none" THEN Respond("DELETE", id, session, 401, NoFractal, store.fractals)
     ELSE IF ~existingFractal.exists
       THEN Respond("DELETE", id, session, 404, NoFractal, store.fractals)
     ELSE IF existingFractal.userId # session
       THEN Respond("DELETE", id, session, 401, NoFractal, store.fractals)
     ELSE Respond("DELETE", id, session, 200, NoFractal,
                  [store.fractals EXCEPT ![id] = NoFractal])

\* FractalPage: notFound() or the editor with initialParams
FractalPage(id, session) ==
  LET fractal == store.fractals[id]
  IN IF ~fractal.exists \/ ~mayRead(fractal, session)
       THEN Respond("PAGE", id, session, 404, NoFractal, store.fractals)
       ELSE /\ store' = [store EXCEPT
                           !.method = "PAGE", !.id = id, !.session = session,
                           !.status = 200, !.body = fractal,
                           !.loaded = initialParams(fractal)]
            /\ UNCHANGED <<controllerVars, adaptive, selectors, pixel, record,
                           gesture, orbit>>

\* handleSave of an editor holding params: POST without a fractalId, PUT
\* with the fractalId of the page
handleSave(session, fractalId, body) ==
  /\ session # "none"
  /\ IF fractalId = 0 THEN POST(session, body) ELSE PUT(fractalId, session, body)

StoreNext ==
  \/ \E session \in Sessions, data \in BodyChoices : POST(session, data)
  \/ \E id \in Ids, session \in Sessions : GET(id, session)
  \/ \E id \in Ids, session \in Sessions, data \in BodyChoices : PUT(id, session, data)
  \/ \E id \in Ids, session \in Sessions : DELETE(id, session)
  \/ \E id \in Ids, session \in Sessions : FractalPage(id, session)
  \/ \E session \in Sessions, fractalId \in {0} \cup Ids, body \in BodyChoices :
       handleSave(session, fractalId, body)

StoreSpec == InitStore /\ [][StoreNext]_vars

(***************************************************************************)
(* The iteration loop of one pixel, pass by pass, then its colour          *)
(***************************************************************************)
\* Plane points: the origin, points of bounded orbits, points leaving at
\* once or after a few passes, and one off the integer grid.
PlanePoints ==
  {<<0, 0>>, <<-1000, 0>>, <<0, 1000>>, <<1000, 0>>, <<250, 500>>,
   <<3000, 0>>, <<5000, 0>>}

\* Starting points of the Newton iteration: the origin (no derivative), two
\* roots, points that reach each root within a few passes, and one whose
\* first step goes beyond the least escape radius.
NewtonPoints ==
  {<<0, 0>>, <<1000, 0>>, <<-500, 866>>, <<2000, 0>>, <<0, 1000>>,
   <<0, -1000>>, <<420, 0>>}

\* Whole exponents (0 is what the power animation reaches), the default
\* escape radius and the least one of its slider, the default Julia
\* constant; the escape, smooth and orbit-trap colourings.  The larger
\* exponent goes with the smaller radius and points, which keeps every
\* product inside the 32-bit integers.
OrbitUniforms ==
  { [u_fractalType |-> ft, u_power |-> n, u_escapeRadius |-> r,
     u_julia |-> <<-700, 270>>, u_maxIterations |-> cap, u_colorScheme |-> cs,
     u_coloringMethod |-> m[1], u_orbitTrapSize |-> m[2],
     u_colorScale |-> 1000, u_colorOffset |-> 0,
     u_hueShift |-> 0, u_saturation |-> 1000, u_brightness |-> 1000,
     u_glowIntensity |-> g, u_posterize |-> 0] :
      ft \in 0..5, n \in {0, 2000, 3000}, r \in {2000, 4000},
      cap \in {1, 2, 3, 10}, cs \in {0, 5}, g \in {0, 2000},
      m \in {<<0, 500>>, <<1, 500>>, <<2, 500>>, <<2, 2000>>} }

\* Long loops are followed on the pixel at the origin, of the Mandelbrot set
\* and of the Newton iteration, up to the bound of the for loop and one
\* beyond it.
DeepUniforms ==
  { [u_fractalType |-> ft, u_power |-> n, u_escapeRadius |-> 4000,
     u_julia |-> <<-700, 270>>, u_maxIterations |-> cap, u_colorScheme |-> 0,
     u_coloringMethod |-> 0, u_orbitTrapSize |-> 500,
     u_colorScale |-> 1000, u_colorOffset |-> 0,
     u_hueShift |-> 0, u_saturation |-> 1000, u_brightness |-> 1000,
     u_glowIntensity |-> 2000, u_posterize |-> 0] :
      ft \in {0, FRACTAL_NEWTON}, n \in {0, 2000},
      cap \in {1000, LoopLimit, LoopLimit + 1} }

InitOrbit ==
  /\ InitController
  /\ adaptive = Idle /\ selectors = Idle /\ pixel = Idle
  /\ record = Idle /\ gesture = Idle /\ store = Idle
  /\ \/ \E u \in OrbitUniforms, c \in PlanePoints :
          /\ u.u_fractalType # FRACTAL_NEWTON
          /\ u.u_power = 3000
               => u.u_escapeRadius = 2000 /\ Abs(c[1]) <= 3000
          /\ orbit = [done |-> FALSE, point |-> c]
                       @@ initialize(u, c)
     \/ \E u \in OrbitUniforms, c \in NewtonPoints :
          /\ u.u_fractalType = FRACTAL_NEWTON
          /\ u.u_power = 2000
          /\ orbit = [done |-> FALSE, point |-> c]
                       @@ initialize(u, c)
     \/ \E u \in DeepUniforms :
          /\ u.u_fractalType = FRACTAL_NEWTON => u.u_power = 2000
          /\ orbit = [done |-> FALSE, point |-> <<0, 0>>]
                    @@ initialize(u, <<0, 0>>)

\* One evaluation of the loop condition and, when it holds, one pass.
Loop ==
  /\ ~orbit.done
  /\ orbit.pc = "loop"
  /\ orbit' = IF loopRuns(orbit.u, orbit.i)
                THEN pass(orbit)
                ELSE [orbit EXCEPT !.pc = "color"]
  /\ UNCHANGED <<controllerVars, adaptive, selectors, pixel, record, gesture, store>>

\* main from calculateColorValue on, with no colour cycling
\* (u_time * u_colorCycleSpeed = 0).
Colour ==
  /\ ~orbit.done
  /\ orbit.pc = "color"
  /\ \E other \in {0, 250, 1300} :
       LET colorVal == (calculateColorValue(orbit, other) * orbit.u.u_colorScale)
                          \div 1000 + orbit.u.u_colorOffset
       IN orbit' = [orbit EXCEPT
                      !.done = TRUE,
                      !.pc = "done",
                      !.colorVal = colorVal,
                      !.gl_FragColor = main(orbit.u, orbit.iter, orbit.maxIter,
                                            colorVal)]
  /\ UNCHANGED <<controllerVars, adaptive, selectors, pixel, record, gesture, store>>

OrbitNext == Loop \/ Colour

OrbitSpec == InitOrbit /\ [][OrbitNext]_vars

(***************************************************************************)
(* One drag: pointer moves, animation ticks and re-renders in any order    *)
(***************************************************************************)
\* The drag began at (100, 100): handleMouseDown set isDraggingRef and
\* lastMouseRef.  rendered is the params the handlers were created with;
\* expected is the center without the drag plus the displacements so far.
InitDrag ==
  /\ InitController
  /\ adaptive = Idle /\ selectors = Idle /\ pixel = Idle
  /\ record = Idle /\ store = Idle /\ orbit = Idle
  /\ \E rect \in RectChoices, zoom \in {Q(1, 1), Q(2, 1)}, rotate \in BOOLEAN :
       LET p == [zoom |-> zoom, centerX |-> Q(-1, 2), centerY |-> Q(0, 1),
                 autoRotate |-> rotate]
       IN gesture = [done |-> FALSE, kind |-> "drag", rect |-> rect,
                     params |-> p, rendered |-> p,
                     isDraggingRef |-> TRUE,
                     lastMouseRef |-> [x |-> 100, y |-> 100],
                     expected |-> [centerX |-> p.centerX, centerY |-> p.centerY],
                     moves |-> 0]

\* A mouse move event at e, a different position from the last one, during
\* the drag.
DragMove ==
  \E x \in {90, 100, 130}, y \in {100, 120} :
    LET e == [clientX |-> x, clientY |-> y]
        dx == x - gesture.lastMouseRef.x
        dy == y - gesture.lastMouseRef.y
        scale == Over(Q(2, 1), By(Q(Min(gesture.rect.width, gesture.rect.height), 1),
                                  gesture.params.zoom))
    IN /\ gesture.moves < MaxMoves
       /\ <<x, y>> # <<gesture.lastMouseRef.x, gesture.lastMouseRef.y>>
       /\ gesture' = [gesture EXCEPT
            !.params = handleParamsChange(
                         @, handleMouseMove(gesture.isDraggingRef, TRUE, gesture.rect,
                                            gesture.rendered, gesture.lastMouseRef, e)),
            !.lastMouseRef = [x |-> x, y |-> y],
            !.expected = [centerX |-> Minus(@.centerX, By(Q(dx, 1), scale)),
                          centerY |-> Plus(@.centerY, By(Q(dy, 1), scale))],
            !.moves = @ + 1]
       /\ UNCHANGED <<controllerVars, adaptive, selectors, pixel, record, store, orbit>>

\* An animate() call while autoRotate is on.
DragTick ==
  \E step \in {<<Q(1, 100), Q(0, 1)>>, <<Q(0, 1), Q(-1, 100)>>} :
    /\ gesture.moves < MaxMoves
    /\ gesture.params.autoRotate
    /\ gesture' = [gesture EXCEPT
         !.params = animateRotate(@, step[1], step[2]),
         !.expected = [centerX |-> Plus(@.centerX, step[1]),
                       centerY |-> Plus(@.centerY, step[2])],
         !.moves = @ + 1]
    /\ UNCHANGED <<controllerVars, adaptive, selectors, pixel, record, store, orbit>>

\* React renders the canvas with the current record: the handlers are
\* created anew.
DragRender ==
  /\ gesture.rendered # gesture.params
  /\ gesture' = [gesture EXCEPT !.rendered = gesture.params]
  /\ UNCHANGED <<controllerVars, adaptive, selectors, pixel, record, store, orbit>>

DragNext == DragMove \/ DragTick \/ DragRender

DragSpec == InitDrag /\ [][DragNext]_vars

(***************************************************************************)
(* Drags and double clicks on a displayed image, a render after each       *)
(***************************************************************************)
\* Pixel ratios of the drawing buffer.
RatioChoices == {1, 2}

OnCanvas(rect, at) ==
  /\ rect.left <= at[1] /\ at[1] <= rect.left + rect.width
  /\ rect.top <= at[2] /\ at[2] <= rect.top + rect.height

\* The pointer is at a position on the canvas; before is the view and the
\* position before the last event.
InitView ==
  /\ InitController
  /\ adaptive = Idle /\ selectors = Idle /\ pixel = Idle
  /\ record = Idle /\ store = Idle /\ orbit = Idle
  /\ \E rect \in RectChoices, ratio \in RatioChoices, p \in ViewChoices,
        at \in PointChoices :
       /\ OnCanvas(rect, at)
       /\ gesture = [done |-> FALSE, kind |-> "view", rect |-> rect,
                     pixelRatio |-> ratio, params |-> p,
                     at |-> [x |-> at[1], y |-> at[2]],
                     before |-> [params |-> p, at |-> [x |-> at[1], y |-> at[2]]],
                     moves |-> 0]

\* The button is held at gesture.at and the pointer moves to another
\* position: one call of handleMouseMove, then a render.
ViewDrag ==
  \E to \in PointChoices :
    /\ gesture.moves < MaxMoves
    /\ OnCanvas(gesture.rect, to)
    /\ <<gesture.at.x, gesture.at.y>> # to
    /\ gesture' = [gesture EXCEPT
         !.kind = "drag",
         !.params = handleParamsChange(
                      @, handleMouseMove(TRUE, TRUE, gesture.rect, gesture.params,
                                         gesture.at,
                                         [clientX |-> to[1], clientY |-> to[2]])),
         !.at = [x |-> to[1], y |-> to[2]],
         !.before = [params |-> gesture.params, at |-> gesture.at],
         !.moves = @ + 1]
    /\ UNCHANGED <<controllerVars, adaptive, selectors, pixel, record, store, orbit>>

\* A double click at gesture.at: one call of handleDoubleClick, then a
\* render.
ViewDoubleClick ==
  /\ gesture.moves < MaxMoves
  /\ gesture' = [gesture EXCEPT
       !.kind = "doubleClick",
       !.params = handleParamsChange(
                    @, handleDoubleClick(TRUE, gesture.rect, gesture.params,
                                         gesture.at.x, gesture.at.y)),
       !.before = [params |-> gesture.params, at |-> gesture.at],
       !.moves = @ + 1]
  /\ UNCHANGED <<controllerVars, adaptive, selectors, pixel, record, store, orbit>>

ViewNext == ViewDrag \/ ViewDoubleClick

ViewSpec == InitView /\ [][ViewNext]_vars

(***************************************************************************)
(* FractalEditor.tsx: the animation loop stopped and started again         *)
(***************************************************************************)
\* Milliseconds between two frames of the display.
FrameInterval == 16

\* animate(currentTime), its clock only: deltaTime in milliseconds and the
\* new lastTimeRef.current.
animateClock(lastTimeRef, currentTime) ==
  LET last == IF lastTimeRef = 0 THEN currentTime ELSE lastTimeRef
  IN [deltaTime |-> currentTime - last, lastTimeRef |-> currentTime]

\* The editor mounts at some time of the page with no animation on.
\*   hasAnimation       hasAnimation of the current params
\*   animationFrameRef  a frame of animate is pending
\*   first              the tick that ran last was the first one of a loop
\*                      the effect started
\*   started            the effect started a loop and no tick ran since
InitRestart ==
  /\ InitController
  /\ adaptive = Idle /\ selectors = Idle /\ pixel = Idle
  /\ gesture = Idle /\ store = Idle /\ orbit = Idle
  /\ \E t \in {100, 5000} :
       record = [done |-> FALSE, kind |-> "restart", hasAnimation |-> FALSE,
                 animationFrameRef |-> FALSE, lastTimeRef |-> 0, now |-> t,
                 deltaTime |-> 0, first |-> FALSE, started |-> FALSE,
                 ticks |-> 0, steps |-> 0]

\* An animation is switched on or off; the auto-animation effect runs:
\* cleanup cancels the pending frame, the body schedules one if an
\* animation is on.
RestartToggle ==
  /\ record.steps < 2 * MaxSteps
  /\ record' = [record EXCEPT
       !.hasAnimation = ~@,
       !.animationFrameRef = ~record.hasAnimation,
       !.started = ~record.hasAnimation,
       !.steps = @ + 1]
  /\ UNCHANGED <<controllerVars, adaptive, selectors, pixel, gesture, store, orbit>>

\* The pending frame arrives one frame interval after it was requested:
\* animate runs and requests the next.
RestartTick ==
  /\ record.steps < 2 * MaxSteps
  /\ record.animationFrameRef
  /\ LET currentTime == record.now + FrameInterval
         clock == animateClock(record.lastTimeRef, currentTime)
     IN record' = [record EXCEPT
          !.now = currentTime,
          !.deltaTime = clock.deltaTime,
          !.lastTimeRef = clock.lastTimeRef,
          !.first = record.started,
          !.started = FALSE,
          !.ticks = @ + 1,
          !.steps = @ + 1]
  /\ UNCHANGED <<controllerVars, adaptive, selectors, pixel, gesture, store, orbit>>

\* Time passes while no animation is on.
RestartPause ==
  \E pause \in {1000, 5000} :
    /\ record.steps < 2 * MaxSteps
    /\ ~record.hasAnimation
    /\ record' = [record EXCEPT !.now = @ + pause, !.steps = @ + 1]
    /\ UNCHANGED <<controllerVars, adaptive, selectors, pixel, gesture, store, orbit>>

RestartNext == RestartToggle \/ RestartTick \/ RestartPause

RestartSpec == InitRestart /\ [][RestartNext]_vars

LiveSpec == Spec /\ WF_vars(RefinementTimerFires)

(***************************************************************************)
(* Claims                                                                  *)
(***************************************************************************)
\* C1: on return from startInteraction the resolution scale is the
\* interaction scale and no refinement timer is pending.
C1_StartInteraction ==
  atStartReturn.taken =>
    /\ atStartReturn.scale = INTERACTION_SCALE
    /\ atStartReturn.timers = 0

\* startInteraction returned (from handleWheel or a double tap, which then
\* called endInteraction) and the timer set afterwards is pending.
C1_Witness ==
  /\ atStartReturn.taken
  /\ canvas.timers > 0
  /\ ~canvas.isInteractingRef
  /\ canvas.resolutionScaleRef = INTERACTION_SCALE

\* C2: a pending refinement timer that is not cancelled fires, and it fires
\* once: no timer is pending afterwards; the callback leaves the scale at
\* full, and it draws exactly once if the scale was not full (not at all if
\* it was).
C2_RefinementOnce ==
  [][lastEvent' = "timer" =>
       /\ canvas'.timers = 0
       /\ canvas'.resolutionScaleRef = FULL_SCALE
       /\ canvas'.renderCalls =
            IF canvas.resolutionScaleRef # FULL_SCALE /\ canvas.glReady
            THEN 1 ELSE 0]_vars

C2_Eventually ==
  (canvas.timers > 0) ~>
     (canvas.resolutionScaleRef = FULL_SCALE \/ canvas.isInteractingRef \/ ~mounted)

C2_Refinement == C2_RefinementOnce /\ C2_Eventually

\* The timer fired at reduced scale: full scale restored, one draw.
C2_Witness ==
  /\ lastEvent = "timer"
  /\ canvas.resolutionScaleRef = FULL_SCALE
  /\ canvas.renderCalls = 1
  /\ canvas.timers = 0

\* C3: while performanceMode is on and an animation is active the
\* resolution scale is the performance scale.
C3_PerformanceHeld ==
  (mounted /\ params.performanceMode /\ isAnimating(params)) =>
     canvas.resolutionScaleRef = PERFORMANCE_SCALE

\* C4: after a reset, a switch of family or the unmount, no refinement timer
\* and no render frame from before is pending.
C4_NothingPendingAfter ==
  lastEvent \in {"reset", "settype", "unmount"} =>
    /\ canvas.timers = 0
    /\ canvas.animationFrameRef # "stale"
    /\ canvas.untracked.stale = 0
    /\ (lastEvent = "unmount" =>
          canvas.animationFrameRef = "none" /\ canvas.untracked.fresh = 0)

\* C5: an animation tick leads to at most one render() of the new record.
C5_OneRenderPerTick ==
  lastEvent = "tick" => canvas.renderCalls <= 1

\* C6: the driver has a tick pending exactly while an animation flag is set
\* or colorCycleSpeed > 0: none once they are all off (so no further update
\* by the driver), and one after each tick while any is on.
C6_TickWhileAnimating ==
  /\ ~hasAnimation(params) => ~animationTick
  /\ (mounted /\ hasAnimation(params)) => animationTick

\* A tick ran and the next one is pending.
C6_Witness ==
  /\ lastEvent = "tick"
  /\ animationTick
  /\ hasAnimation(params)

\* The value floor(base * (1 + 0.5 * log10(max(zoom, 1)))) clamped at cap,
\* stated by its bounds: r is that value.
ClaimedLog10E4(zoom) == IF zoom.exp < 0 THEN 0 ELSE Log10E4(zoom)

IsClampedAdaptive(r, base, zoom, cap) ==
  LET x == base * (20000 + ClaimedLog10E4(zoom))
  IN /\ r <= cap
     /\ r < cap => (20000 * r <= x /\ x < 20000 * (r + 1))
     /\ r = cap => x >= 20000 * cap

\* C7: without performance-animating the cap is the zoom-adaptive value
\* clamped at 2000 (500 on mobile): base for zoom <= 1, 250 for base 100 at
\* zoom 1000 on a non-mobile device.
C7_AdaptiveIterations ==
  (adaptive.done /\ ~usePerformance(adaptive.params)) =>
     LET r == adaptive.u_maxIterations
         base == adaptive.maxIterations
         ceiling == IF adaptive.isMobileRef THEN 500 ELSE 2000
     IN /\ IsClampedAdaptive(r, base, adaptive.zoom, ceiling)
        /\ (adaptive.zoom.exp < 0 \/ adaptive.zoom = Zoom(1, 0)) /\ base <= ceiling
             => r = base
        /\ base = 100 /\ adaptive.zoom = Zoom(1, 3) /\ ~adaptive.isMobileRef
             => r = 250

C7_Witness ==
  /\ adaptive.done
  /\ ~usePerformance(adaptive.params)
  /\ adaptive.maxIterations = 100
  /\ adaptive.zoom = Zoom(1, 3)
  /\ ~adaptive.isMobileRef
  /\ adaptive.u_maxIterations = 250

\* C8 as stated: with performanceMode on and an animation active the cap
\* never exceeds a fixed ceiling of 100.
C8_CeilingOf100 ==
  (adaptive.done /\ usePerformance(adaptive.params)) =>
     adaptive.u_maxIterations <= 100

\* C8 amended: the ceiling is 200, and below it the cap still is the
\* zoom-adaptive value.
C8_CeilingOf200 ==
  (adaptive.done /\ usePerformance(adaptive.params)) =>
     IsClampedAdaptive(adaptive.u_maxIterations, adaptive.maxIterations,
                       adaptive.zoom, 200)

C8_Witness ==
  /\ adaptive.done
  /\ usePerformance(adaptive.params)
  /\ adaptive.maxIterations = 100
  /\ adaptive.zoom = Zoom(1, 3)
  /\ adaptive.u_maxIterations = 200

\* C9: a selector string outside its enum converts to the default (0
\* mandelbrot, 0 classic, 1 smooth), and every string yields an integer of
\* the valid range for the renderer.
C9_SelectorDefaults ==
  selectors.done =>
    /\ selectors.type \notin DOMAIN types => selectors.typeInt = Number(0)
    /\ selectors.colorScheme \notin DOMAIN schemes => selectors.schemeInt = Number(0)
    /\ selectors.coloringMethod \notin DOMAIN methods => selectors.methodInt = Number(1)
    /\ selectors.typeInt.kind = "number" /\ selectors.typeInt.n \in 0..5
    /\ selectors.schemeInt.kind = "number" /\ selectors.schemeInt.n \in 0..8
    /\ selectors.methodInt.kind = "number" /\ selectors.methodInt.n \in 0..5

\* C10: for every family but Newton, a pixel whose iteration counter reached
\* the cap is written black, whatever hue shift, saturation, brightness,
\* glow intensity and posterization are set.
C10_InteriorBlack ==
  (/\ pixel.done
   /\ pixel.u.u_fractalType # FRACTAL_NEWTON
   /\ pixel.iter >= pixel.maxIter)
    => pixel.gl_FragColor = <<0, 0, 0>>

\* An interior pixel drawn with every effect switched on, where the palette
\* colour at this value is not black.
C10_Witness ==
  /\ pixel.done
  /\ pixel.u.u_fractalType = 2
  /\ pixel.iter = pixel.maxIter
  /\ pixel.u.u_hueShift > 0 /\ pixel.u.u_saturation = 2000
  /\ pixel.u.u_brightness = 3000 /\ pixel.u.u_glowIntensity = 2000
  /\ pixel.u.u_posterize = 4000
  /\ getColorScheme(pixel.colorVal, pixel.u.u_colorScheme) # <<0, 0, 0>>
  /\ pixel.gl_FragColor = <<0, 0, 0>>

\* C11: zoom > 0 in every reachable parameter record: after initialisation
\* and after any sequence of wheel, pinch, double-click, zoom-slider, reset
\* and auto-zoom tick updates.
C11_ZoomPositive == IsPositive(record.params.zoom)

\* The documented range of a numeric field of the record.
InRange(f, v) ==
  CASE f = "zoom" -> v.kind = "pos"
    [] f = "hueShift" -> v \in 0..999
    [] f = "power" -> v \in 1000..8000
    [] f = "globalAnimSpeed" -> v \in 1..100
    [] f = "autoZoomSpeed" -> v \in -1000..1000
    [] f = "autoHueSpeed" -> v \in 0..500
    [] OTHER -> TRUE

\* C12: a partial update carrying a numeric field outside its documented
\* range never stores that value: the stored value is in range or is the one
\* stored before.
C12_UpdateValidated ==
  [][ (~record'.frame /\ record'.steps = record.steps + 1) =>
        \A f \in DOMAIN record'.lastUpdate :
          ~InRange(f, record'.lastUpdate[f]) =>
             \/ InRange(f, record'.params[f])
             \/ record'.params[f] = record.params[f] ]_vars

\* C13: after an animation tick with auto hue cycle enabled hueShift is
\* (previous hueShift + autoHueSpeed * globalAnimSpeed * dt) mod 1, and
\* hueShift lies in [0,1) in every reachable state.
C13_HueShiftWraps ==
  [][ /\ record'.params.hueShift \in 0..999
      /\ (record'.frame /\ record'.steps = record.steps + 1
            /\ record.params.autoHueShift) =>
           record'.params.hueShift =
             (record.params.hueShift
                + (record.params.autoHueSpeed * record.params.globalAnimSpeed
                     * record'.deltaTime) \div 100) % 1000 ]_vars

\* C14: power stays within [1,8] in every reachable state, including after
\* every auto power morph tick.
C14_PowerInDomain == record.params.power \in 1000..8000

\* C15: a wheel zoom step multiplies zoom by 0.9 or 1.1 and moves the
\* center so that screenToFractal of the cursor position is the same plane
\* point as before the step.
C15_WheelKeepsCursorPoint ==
  (gesture.done /\ gesture.kind = "wheel") =>
     /\ gesture.after = gesture.before
     /\ gesture.factor \in {Q(9, 10), Q(11, 10)}
     /\ gesture.params.zoom = By(gesture.zoomBefore, gesture.factor)

\* A wheel step with the cursor off the centre of the canvas, which moved
\* the center.
C15_Witness ==
  /\ gesture.done /\ gesture.kind = "wheel" /\ gesture.canvas
  /\ Normalized(gesture.rect, gesture.clientX, gesture.clientY).nx # Q(0, 1)
  /\ gesture.params.zoom = Q(110, 1)
  /\ gesture.params.centerX \notin {Q(-1, 2), Q(0, 1)}
  /\ gesture.after = gesture.before

\* C16: a pinch step whose touch distance changed and whose midpoint did
\* not move leaves the plane point under the midpoint where it was.
C16_PinchKeepsMidpoint ==
  (/\ gesture.done /\ gesture.kind = "pinch"
   /\ gesture.factor # Q(1, 1)
   /\ ~gesture.centerMoved)
    => gesture.after = gesture.before

\* C17: a read (GET or the fractal page) returns a fractal only if it is
\* public or the requester owns it; a stored fractal changes or disappears
\* only by a PUT or DELETE of its authenticated owner.
C17_OwnerGated ==
  [][ /\ (store'.method \in {"GET", "PAGE"} /\ store'.status = 200) =>
           /\ store'.body = store.fractals[store'.id]
           /\ store'.body.isPublic \/ store'.body.userId = store'.session
      /\ \A id \in Ids :
           (store.fractals[id].exists /\ store'.fractals[id] # store.fractals[id]) =>
              /\ store'.method \in {"PUT", "DELETE"}
              /\ store'.id = id
              /\ store'.session = store.fractals[id].userId ]_vars

\* bob was refused a PUT on alice's private fractal, which is still there.
C17_Witness ==
  /\ store.method = "PUT" /\ store.status = 401 /\ store.session = "bob"
  /\ store.fractals[store.id].exists
  /\ store.fractals[store.id].userId = "alice"
  /\ ~store.fractals[store.id].isPublic

\* C18: the record the fractal page hands to the editor equals the record
\* that was saved, field by field.
C18_SaveLoadRoundTrip ==
  (store.method = "PAGE" /\ store.status = 200) =>
     \A f \in DOMAIN DEFAULT_SAVED_PARAMS : store.loaded[f] = store.body.sent[f]

\* C19: for every escape-based family and every cap of at least 1, a pixel
\* whose first transition already lies outside the escape radius
\* (|z1|^2 > R^2) ends the loop with the counter at 0 and takes its colour
\* from the palette, not the interior black.
C19_FirstPassEscape ==
  LET first == initialize(orbit.u, orbit.point)
      z1 == transition(first)
      escapeRadiusSq == (orbit.u.u_escapeRadius * orbit.u.u_escapeRadius) \div 1000
  IN (/\ orbit.done
      /\ orbit.u.u_fractalType # FRACTAL_NEWTON
      /\ orbit.u.u_maxIterations >= 1
      /\ dot(z1, z1) > escapeRadiusSq)
       => /\ orbit.iter = 0
          /\ orbit.gl_FragColor =
               postProcess(orbit.u,
                           getColorScheme(orbit.colorVal, orbit.u.u_colorScheme),
                           0, orbit.maxIter, orbit.colorVal)

\* A pixel of the burning ship drawn with a cap of 1 that left on its first
\* pass and is not black.
C19_Witness ==
  /\ orbit.done
  /\ orbit.u.u_fractalType = FRACTAL_BURNING_SHIP
  /\ orbit.u.u_maxIterations = 1
  /\ orbit.point = <<5000, 0>>
  /\ orbit.z = <<5000, 0>>
  /\ orbit.iter = 0
  /\ orbit.gl_FragColor # <<0, 0, 0>>

\* C20: for the Mandelbrot family at the plane point c = 0 the orbit stays
\* at z = 0 in every pass, the escape test never succeeds, and for every cap
\* from 1 to 10000 the loop ends with the counter equal to the cap and the
\* pixel is interior black.
C20_OriginInterior ==
  (/\ orbit.u.u_fractalType = 0
   /\ orbit.point = <<0, 0>>
   /\ orbit.u.u_maxIterations \in 1..LoopLimit)
    => /\ orbit.z = <<0, 0>>
       /\ orbit.iter = orbit.i
       /\ orbit.pc # "loop" => orbit.iter = orbit.u.u_maxIterations
       /\ orbit.done => orbit.gl_FragColor = <<0, 0, 0>>

\* The origin drawn with a cap of 10000, glow on: black after 10000 passes.
C20_Witness ==
  /\ orbit.done
  /\ orbit.u.u_fractalType = 0
  /\ orbit.point = <<0, 0>>
  /\ orbit.u.u_maxIterations = LoopLimit
  /\ orbit.i = LoopLimit
  /\ orbit.iter = LoopLimit
  /\ orbit.u.u_glowIntensity > 0
  /\ orbit.gl_FragColor = <<0, 0, 0>>

\* C21: for the escape-based families the loop ends after at most
\* min(cap, 10000) passes with 0 <= iter <= cap; at the exit iter equals the
\* cap if and only if no pass produced |z|^2 > escapeRadius^2, and an escape
\* in pass k (counted from 0) exits with iter = k < cap.
C21_ExitCounts ==
  LET cap == orbit.u.u_maxIterations
      escapeRadiusSq == (orbit.u.u_escapeRadius * orbit.u.u_escapeRadius) \div 1000
      escaped == dot(orbit.z, orbit.z) > escapeRadiusSq
      passes == IF escaped THEN orbit.i + 1 ELSE orbit.i
  IN (orbit.pc # "loop" /\ orbit.u.u_fractalType # FRACTAL_NEWTON)
       => /\ passes <= Min(cap, LoopLimit)
          /\ 0 <= orbit.iter /\ orbit.iter <= cap
          /\ (orbit.iter = cap) <=> ~escaped
          /\ escaped => orbit.iter = orbit.i /\ orbit.iter < cap

\* C22: for the Newton family the loop exits before the cap only when the
\* new z is within tolerance of one of the three roots, and rootIndex is then
\* the index of that root; in every other exit rootIndex is -1 and iter
\* equals the cap; the escape test is not applied, and a pass whose
\* derivative 3z^2 is below epsilon leaves z unchanged and reports no
\* convergence.
C22_NewtonExits ==
  [][(/\ orbit.pc = "loop"
      /\ orbit.u.u_fractalType = FRACTAL_NEWTON)
       => LET cap == orbit.u.u_maxIterations
              z2 == complexMul(orbit.z, orbit.z)
          IN /\ orbit'.pc = "color"
                  => IF orbit'.iter < cap
                       THEN /\ orbit'.rootIndex \in 0..2
                            /\ orbit'.z = NEWTON_ROOTS[orbit'.rootIndex + 1]
                       ELSE orbit'.rootIndex = -1 /\ orbit'.iter = cap
             /\ orbit'.rootIndex \in 0..2 => orbit'.pc = "color"
             /\ (orbit'.rootIndex = -1 /\ orbit'.iter < cap) => orbit'.pc = "loop"
             /\ (loopRuns(orbit.u, orbit.i) /\ length(<<3 * z2[1], 3 * z2[2]>>) = 0)
                  => (orbit'.z = orbit.z /\ orbit'.rootIndex = -1)]_vars

\* C23: in every pass of the loop, for every family, the orbit statistics
\* take the z the pass starts from, before its transition: after k passes
\* the recorded minimum distance is the least of |z_0| ... |z_(k-1)| and does
\* not include the z_k the last pass produced.
C23_StatsBeforeTransition ==
  [][orbit.pc = "loop"
       => orbit'.minDist = IF loopRuns(orbit.u, orbit.i)
                             THEN Min(orbit.minDist, length(orbit.z))
                             ELSE orbit.minDist]_vars

\* A Newton orbit from z = 2 that reached the root 1 in its fourth pass: the
\* least distance recorded is that of the z this pass started from, 1.011,
\* not that of the root.
C23_Witness ==
  /\ orbit.done
  /\ orbit.u.u_fractalType = FRACTAL_NEWTON
  /\ orbit.point = <<2000, 0>>
  /\ orbit.i = 3
  /\ orbit.rootIndex = 0
  /\ orbit.z = <<1000, 0>>
  /\ orbit.minDist = 1011

\* C24: at any time at most one render frame callback is pending and its
\* handle is the one in animationFrameRef, so cancelling that handle on a
\* parameter change or at unmount leaves no render of an outdated parameter
\* record scheduled; also when render() is called by the resize observer or
\* the refinement timer while a frame is pending.
C24_OneRecordedFrame ==
  /\ canvas.untracked.fresh = 0
  /\ canvas.untracked.stale = 0
  /\ canvas.animationFrameRef # "stale"

\* C25: while a pointer drag or a touch gesture is in progress (from mouse
\* down or touch start to the matching mouse up, mouse leave or last touch
\* end) the resolution scale stays the interaction scale and is not refined
\* to full, for every interleaving of wheel, double-tap and move events.
C25_ScaleHeldDuringGesture ==
  (mounted /\ (canvas.isDraggingRef \/ canvas.touches > 0))
    => canvas.resolutionScaleRef = INTERACTION_SCALE

\* C26: no pan displacement is lost: after any sequence of pointer moves
\* during a drag, interleaved with animation ticks and with or without a
\* re-render between two events, the center of the record is the center it
\* would have had without the drag plus the sum of the displacements.
C26_NoPanLost ==
  /\ gesture.params.centerX = gesture.expected.centerX
  /\ gesture.params.centerY = gesture.expected.centerY

\* C27: screenToFractal gives the point of the plane the shader displays
\* at the screen position; so after a drag the point that was under the
\* pointer is still under it, and after a double click the center is the
\* point that was displayed under the pointer.
C27_SameMapping ==
  LET g == gesture
      shown(p, at) == displayedAt(g.rect, g.pixelRatio, p, at.x, at.y)
  IN /\ screenToFractal(TRUE, g.rect, g.params, g.at.x, g.at.y)
          = shown(g.params, g.at)
     /\ g.kind = "drag" => shown(g.params, g.at) = shown(g.before.params, g.before.at)
     /\ g.kind = "doubleClick" =>
          [x |-> g.params.centerX, y |-> g.params.centerY]
            = shown(g.before.params, g.before.at)


\* C28: every updateCanvasResolution is eventually followed by a render at
\* the new resolution.  In the form a finite run refutes: after every
\* task, if the drawing buffer was reset and not drawn since, something
\* that draws is scheduled: a frame of render, the refinement timer, or a
\* tick of animate (which replaces params, and the commit renders).
C28_RenderFollowsReset ==
  (mounted /\ canvas.glReady /\ canvas.undrawn) =>
    \/ canvas.animationFrameRef # "none"
    \/ canvas.untracked.fresh + canvas.untracked.stale > 0
    \/ canvas.timers > 0
    \/ animationTick

\* C29: when the animation loop starts again after it was stopped, the
\* deltaTime of its first tick is 0 or one frame interval: the time the
\* loop was stopped is not part of it.
C29_FirstTickAfterRestart ==
  (record.first /\ record.ticks > 0) => record.deltaTime \in {0, FrameInterval}

====
